---- MODULE Spec2Model ----
(***************************************************************************)
(* Protocol engine of the GAN Gen2 smart cube driver (python-port):        *)
(*   - ProtocolMessageView.get_bit_word   (protocols/gen2.py)              *)
(*   - GanGen2CubeEncrypter               (encryption/encrypters.py)       *)
(*   - GanGen2Protocol.decode_event       (protocols/gen2.py)              *)
(*   - to_kociemba_facelets               (utils.py)                       *)
(* Bytes are naturals in 0..255, buffers are sequences of bytes (1-based   *)
(* in TLA+, 0-based in the source: index k of the source is k+1 here).     *)
(***************************************************************************)
EXTENDS Integers, Sequences, FiniteSets, TLC

(***************************************************************************)
(* Bounds of the model.                                                    *)
(***************************************************************************)
\* largest bit offset tried by the bit-reader specification
MaxBitOffset == 47
\* largest stride of the byte ramps used as frames of the crypto specification
MaxStride == 3
\* number of decode_event calls in one behaviour of the decoder
MaxSteps == 3
MaxGyroSteps == 7
MaxSyncPoints == 3
MaxConnections == 2

(***************************************************************************)
(* Arithmetic helpers.                                                     *)
(***************************************************************************)
RECURSIVE Pow2(_)
Pow2(n) == IF n = 0 THEN 1 ELSE 2 * Pow2(n - 1)

\* a sequence given as a function on 1..n, evaluated once into a tuple
AsTuple(f, n) == SubSeq(f, 1, n)

RECURSIVE Xor8(_, _, _)
\* bitwise exclusive or of two n-bit naturals
Xor8(a, b, n) ==
  IF n = 0 THEN 0
  ELSE ((a + b) % 2) + 2 * Xor8(a \div 2, b \div 2, n - 1)

Min(a, b) == IF a < b THEN a ELSE b

RECURSIVE SumSeq(_)
SumSeq(s) == IF s = <<>> THEN 0 ELSE Head(s) + SumSeq(Tail(s))

(***************************************************************************)
(* ProtocolMessageView: the message as a string of bits, MSB first.        *)
(***************************************************************************)
\* f'{byte:08b}'
ByteBits(byte) ==
  <<byte \div 128, (byte \div 64) % 2, (byte \div 32) % 2, (byte \div 16) % 2,
    (byte \div 8) % 2, (byte \div 4) % 2, (byte \div 2) % 2, byte % 2>>

\* self.bits = ''.join(f'{byte:08b}' for byte in data)
RECURSIVE JoinBits(_, _)
JoinBits(data, n) == IF n = 0 THEN <<>> ELSE JoinBits(data, n - 1) \o ByteBits(data[n])
MessageBits(data) == JoinBits(data, Len(data))

\* Python's s[a:b] for 0 <= a <= b: clipped to the string, never an error
PySlice(s, a, b) ==
  IF a >= Len(s) THEN <<>> ELSE SubSeq(s, a + 1, Min(b, Len(s)))

RECURSIVE IntDigits(_, _)
IntDigits(s, n) == IF n = 0 THEN 0 ELSE 2 * IntDigits(s, n - 1) + s[n]
\* int(bit_slice, 2) if bit_slice else 0
IntBase2(s) == IntDigits(s, Len(s))

\* the byte-by-byte branch: num_bytes slices of 8 bits, big-endian ('>H', '>I')
RECURSIVE UnpackBE(_, _, _)
UnpackBE(bits, bit_offset, num_bytes) ==
  IF num_bytes = 0 THEN 0
  ELSE IntBase2(PySlice(bits, bit_offset, bit_offset + 8)) * Pow2(8 * (num_bytes - 1))
       + UnpackBE(bits, bit_offset + 8, num_bytes - 1)

\* the same bytes combined little-endian ('<H', '<I')
RECURSIVE UnpackLE(_, _, _)
UnpackLE(bits, bit_offset, num_bytes) ==
  IF num_bytes = 0 THEN 0
  ELSE IntBase2(PySlice(bits, bit_offset, bit_offset + 8))
       + 256 * UnpackLE(bits, bit_offset + 8, num_bytes - 1)

\* A 32-bit word does not fit the 32-bit signed integers of TLC: it is kept
\* as its two 16-bit halves <<high, low>>, the word being 65536 * high + low.
\* get_bit_word with little_endian = True
get_bit_word_le(bits, bit_offset, bit_length) ==
  IF bit_length <= 8
  THEN IntBase2(PySlice(bits, bit_offset, bit_offset + bit_length))
  ELSE IF bit_length = 16
  THEN UnpackLE(bits, bit_offset, 2)
  ELSE IF bit_length = 32
  THEN <<UnpackLE(bits, bit_offset + 16, 2), UnpackLE(bits, bit_offset, 2)>>
  ELSE IntBase2(PySlice(bits, bit_offset, bit_offset + bit_length))

\* get_bit_word(bit_offset, bit_length) with little_endian = False, as at
\* every call site
get_bit_word(bits, bit_offset, bit_length) ==
  IF bit_length <= 8
  THEN IntBase2(PySlice(bits, bit_offset, bit_offset + bit_length))
  ELSE IF bit_length = 16
  THEN UnpackBE(bits, bit_offset, 2)
  ELSE IF bit_length = 32
  THEN <<UnpackBE(bits, bit_offset, 2), UnpackBE(bits, bit_offset + 16, 2)>>
  ELSE IntBase2(PySlice(bits, bit_offset, bit_offset + bit_length))

(***************************************************************************)
(* GanGen2CubeEncrypter.                                                   *)
(***************************************************************************)
\* GAN_ENCRYPTION_KEYS[0] and [1]
GAN_ENCRYPTION_KEYS ==
  << [key |-> <<1, 2, 66, 40, 49, 145, 22, 7, 32, 5, 24, 84, 66, 17, 18, 83>>,
      iv  |-> <<17, 3, 50, 40, 33, 1, 118, 39, 32, 149, 120, 20, 50, 18, 2, 67>>],
     [key |-> <<5, 18, 2, 69, 2, 1, 41, 86, 18, 120, 18, 118, 129, 1, 8, 3>>,
      iv  |-> <<1, 68, 40, 6, 134, 33, 34, 40, 81, 5, 8, 49, 130, 2, 33, 6>>] >>

\* __init__ checking only the key and the IV, not the salt
GanGen2CubeEncrypterAnySalt(key, iv, salt) ==
  IF Len(key) # 16 \/ Len(iv) # 16
  THEN [raised |-> TRUE, key |-> <<>>, iv |-> <<>>]
  ELSE [raised |-> FALSE,
        key |-> AsTuple([i \in 1..16 |-> IF i <= Min(6, Len(salt))
                                         THEN (key[i] + salt[i]) % 255 ELSE key[i]], 16),
        iv  |-> AsTuple([i \in 1..16 |-> IF i <= Min(6, Len(salt))
                                         THEN (iv[i] + salt[i]) % 255 ELSE iv[i]], 16)]

\* __init__ with the salt added mod 0x100
GanGen2CubeEncrypterMod256(key, iv, salt) ==
  IF Len(key) # 16 \/ Len(iv) # 16 \/ Len(salt) # 6
  THEN [raised |-> TRUE, key |-> <<>>, iv |-> <<>>]
  ELSE [raised |-> FALSE,
        key |-> AsTuple([i \in 1..16 |-> IF i <= 6 THEN (key[i] + salt[i]) % 256 ELSE key[i]], 16),
        iv  |-> AsTuple([i \in 1..16 |-> IF i <= 6 THEN (iv[i] + salt[i]) % 256 ELSE iv[i]], 16)]

\* __init__: ValueError unless key and IV have 16 bytes and the salt 6; the
\* salt is added to the first 6 bytes of key and IV, mod 0xFF
GanGen2CubeEncrypter(key, iv, salt) ==
  IF Len(key) # 16 \/ Len(iv) # 16 \/ Len(salt) # 6
  THEN [raised |-> TRUE, key |-> <<>>, iv |-> <<>>]
  ELSE [raised |-> FALSE,
        key |-> AsTuple([i \in 1..16 |-> IF i <= 6 THEN (key[i] + salt[i]) % 255 ELSE key[i]], 16),
        iv  |-> AsTuple([i \in 1..16 |-> IF i <= 6 THEN (iv[i] + salt[i]) % 255 ELSE iv[i]], 16)]

\* The AES-128 block cipher of the cryptography library, abstracted to a
\* keyed bijection on 16-byte blocks that moves bytes across positions (so
\* that two overlapping chunk operations do not commute); AesDecryptBlock is
\* its inverse (5 * 205 = 1 mod 256).
AesRot(i) == ((i + 4) % 16) + 1
AesRotInv(j) == ((j + 10) % 16) + 1
AesEncryptBlock(key, blk) ==
  AsTuple([i \in 1..16 |-> (5 * blk[AesRot(i)] + key[i]) % 256], 16)
AesDecryptBlock(key, blk) ==
  AsTuple([j \in 1..16 |->
             (205 * (blk[AesRotInv(j)] + 256 - key[AesRotInv(j)])) % 256], 16)

XorBlock(a, b) == AsTuple([i \in 1..16 |-> Xor8(a[i], b[i], 8)], 16)

\* data with the 16 bytes at offset replaced by chunk
PutChunk(data, offset, chunk) ==
  AsTuple([i \in 1..Len(data) |->
             IF i > offset /\ i <= offset + 16 THEN chunk[i - offset] ELSE data[i]],
          Len(data))

\* _encrypt_chunk: one CBC block, C = E_k(P xor IV), written back in place
encrypt_chunk(enc, data, offset) ==
  PutChunk(data, offset,
           AesEncryptBlock(enc.key, XorBlock(SubSeq(data, offset + 1, offset + 16), enc.iv)))

\* _decrypt_chunk: one CBC block, P = D_k(C) xor IV, written back in place
decrypt_chunk(enc, data, offset) ==
  PutChunk(data, offset,
           XorBlock(AesDecryptBlock(enc.key, SubSeq(data, offset + 1, offset + 16)), enc.iv))

\* encrypt: ValueError below 16 bytes; start chunk, then end chunk
encrypt(enc, data) ==
  IF Len(data) < 16 THEN [raised |-> TRUE, out |-> <<>>]
  ELSE LET first == encrypt_chunk(enc, data, 0)
       IN [raised |-> FALSE,
           out |-> IF Len(data) > 16
                   THEN encrypt_chunk(enc, first, Len(data) - 16)
                   ELSE first]

\* decrypt with the chunks undone in the order encrypt applied them
decrypt_start_first(enc, data) ==
  IF Len(data) < 16 THEN [raised |-> TRUE, out |-> <<>>]
  ELSE LET first == decrypt_chunk(enc, data, 0)
       IN [raised |-> FALSE,
           out |-> IF Len(data) > 16
                   THEN decrypt_chunk(enc, first, Len(data) - 16)
                   ELSE first]

\* decrypt without the length check: a short input comes back as it is
decrypt_unchecked(enc, data) ==
  IF Len(data) < 16 THEN [raised |-> FALSE, out |-> data]
  ELSE LET last == IF Len(data) > 16
                   THEN decrypt_chunk(enc, data, Len(data) - 16)
                   ELSE data
       IN [raised |-> FALSE, out |-> decrypt_chunk(enc, last, 0)]

\* decrypt: ValueError below 16 bytes; end chunk first, then start chunk
decrypt(enc, data) ==
  IF Len(data) < 16 THEN [raised |-> TRUE, out |-> <<>>]
  ELSE LET last == IF Len(data) > 16
                   THEN decrypt_chunk(enc, data, Len(data) - 16)
                   ELSE data
       IN [raised |-> FALSE, out |-> decrypt_chunk(enc, last, 0)]

(***************************************************************************)
(* State.                                                                  *)
(***************************************************************************)
VARIABLES
  \* GanGen2Protocol fields (gen2.py __init__)
  encrypter,               \* the encrypter the protocol was constructed with
  last_serial,             \* -1 until the first Facelets frame
  last_move_timestamp,
  cube_timestamp,          \* running device-clock accumulator
  gyro_buffer,             \* sequence of [quaternion, timestamp]
  last_gyro_emit,
  gyro_timestamp_history,
  \* environment
  clock,                   \* host time in ms, what now() returns
  \* the last decode_event call: its input, its outcome, the state before it
  call,
  steps,
  facelets_seen,           \* a frame tagged 0x3 or 0x4 has reached the dispatch
  \* the bit-reader and the crypto specifications
  bitrd,
  cry,
  \* the last command handed to _send_command and what encode_command gave
  sent,
  \* the last call of the clock synchronizer and what it gave
  sync,
  \* GanSmartCube: _connected, whether _protocol is set, and how many
  \* connections have been made
  conn,
  \* the threaded controller: SprintStateMachine, DuplicateFilter, the
  \* executor's workers and the roll threads
  sprint

decoderVars == <<encrypter, last_serial, last_move_timestamp, cube_timestamp,
                 gyro_buffer, last_gyro_emit, gyro_timestamp_history>>
vars == <<encrypter, last_serial, last_move_timestamp, cube_timestamp,
          gyro_buffer, last_gyro_emit, gyro_timestamp_history,
          clock, call, steps, facelets_seen, bitrd, cry, sent, sync, conn,
          sprint>>

\* Python's None where a number is expected
NoneVal == -1

(***************************************************************************)
(* GanGen2Protocol: the handlers.  Each returns the fields it assigns and  *)
(* the events it returns; raised marks an exception leaving the handler.   *)
(***************************************************************************)
\* the decoder's mutable fields as one record
Fields ==
  [last_serial |-> last_serial,
   last_move_timestamp |-> last_move_timestamp,
   cube_timestamp |-> cube_timestamp,
   gyro_buffer |-> gyro_buffer,
   last_gyro_emit |-> last_gyro_emit,
   gyro_timestamp_history |-> gyro_timestamp_history]

Handled(st, events, raised) == [st |-> st, events |-> events, raised |-> raised]

\* _move_to_string: "URFDLB"[face], with "'" for direction 1; "?" out of range
FaceChars == <<"U", "R", "F", "D", "L", "B">>
move_to_string(face, direction) ==
  IF 0 <= face /\ face < Len(FaceChars)
  THEN IF direction = 1 THEN <<FaceChars[face + 1], "'">> ELSE <<FaceChars[face + 1]>>
  ELSE <<"?">>

\* the loop body with the face read 5 bits wide, the direction bit included
MoveSlotWideFace(msg, timestamp, serial, i, cts) ==
  LET face == get_bit_word(msg, 12 + 5 * i, 5)
      direction == get_bit_word(msg, 16 + 5 * i, 1)
      raw == get_bit_word(msg, 47 + 16 * i, 16)
      elapsed == IF raw = 0 THEN timestamp - last_move_timestamp ELSE raw
  IN [type |-> "MOVE",
      serial |-> (serial - i) % 256,
      face |-> face,
      direction |-> direction,
      move |-> move_to_string(face, direction),
      local_timestamp |-> IF i = 0 THEN timestamp ELSE NoneVal,
      cube_timestamp |-> cts + elapsed]

\* the loop body reading elapsed one bit late, at 48 + 16 * i
MoveSlotElapsedByteAligned(msg, timestamp, serial, i, cts) ==
  LET face == get_bit_word(msg, 12 + 5 * i, 4)
      direction == get_bit_word(msg, 16 + 5 * i, 1)
      raw == get_bit_word(msg, 48 + 16 * i, 16)
      elapsed == IF raw = 0 THEN timestamp - last_move_timestamp ELSE raw
  IN [type |-> "MOVE",
      serial |-> (serial - i) % 256,
      face |-> face,
      direction |-> direction,
      move |-> move_to_string(face, direction),
      local_timestamp |-> IF i = 0 THEN timestamp ELSE NoneVal,
      cube_timestamp |-> cts + elapsed]

\* the loop body with the event's serial left unmasked: serial - i
MoveSlotUnmasked(msg, timestamp, serial, i, cts) ==
  LET face == get_bit_word(msg, 12 + 5 * i, 4)
      direction == get_bit_word(msg, 16 + 5 * i, 1)
      raw == get_bit_word(msg, 47 + 16 * i, 16)
      elapsed == IF raw = 0 THEN timestamp - last_move_timestamp ELSE raw
  IN [type |-> "MOVE",
      serial |-> serial - i,
      face |-> face,
      direction |-> direction,
      move |-> move_to_string(face, direction),
      local_timestamp |-> IF i = 0 THEN timestamp ELSE NoneVal,
      cube_timestamp |-> cts + elapsed]

\* one pass of the loop body of _handle_move_event for slot i; cts is
\* self.cube_timestamp on entry
MoveSlot(msg, timestamp, serial, i, cts) ==
  LET face == get_bit_word(msg, 12 + 5 * i, 4)
      direction == get_bit_word(msg, 16 + 5 * i, 1)
      raw == get_bit_word(msg, 47 + 16 * i, 16)
      elapsed == IF raw = 0 THEN timestamp - last_move_timestamp ELSE raw
  IN [type |-> "MOVE",
      serial |-> (serial - i) % 256,
      face |-> face,
      direction |-> direction,
      move |-> move_to_string(face, direction),
      local_timestamp |-> IF i = 0 THEN timestamp ELSE NoneVal,
      cube_timestamp |-> cts + elapsed]

\* the loop written range(diff - 1, 0, -1): slot 0 is never reached
RECURSIVE MoveLoopSkipsNewest(_, _, _, _, _)
MoveLoopSkipsNewest(msg, timestamp, serial, i, cts) ==
  IF i < 1 THEN <<>>
  ELSE LET ev == MoveSlot(msg, timestamp, serial, i, cts)
       IN <<ev>> \o MoveLoopSkipsNewest(msg, timestamp, serial, i - 1, ev.cube_timestamp)

\* the loop written range(0, diff): the events of slots 0, 1, ..., i, the
\* newest first
MoveLoopNewestFirst(msg, timestamp, serial, i, cts) ==
  IF i < 0 THEN <<>>
  ELSE AsTuple([k \in 1..(i + 1) |-> MoveSlot(msg, timestamp, serial, k - 1, cts)], i + 1)

\* for i in range(diff - 1, -1, -1): the events of slots i, i-1, ..., 0
RECURSIVE MoveLoop(_, _, _, _, _)
MoveLoop(msg, timestamp, serial, i, cts) ==
  IF i < 0 THEN <<>>
  ELSE LET ev == MoveSlot(msg, timestamp, serial, i, cts)
       IN <<ev>> \o MoveLoop(msg, timestamp, serial, i - 1, ev.cube_timestamp)

\* _handle_move_event without the check of the baseline
handle_move_event_no_baseline(msg, timestamp) ==
  LET serial == get_bit_word(msg, 4, 8)
      diff == Min((serial - last_serial) % 256, 7)
      events == MoveLoop(msg, timestamp, serial, diff - 1, cube_timestamp)
  IN Handled([Fields EXCEPT
                !.last_serial = serial,
                !.cube_timestamp =
                   IF diff > 0 THEN events[Len(events)].cube_timestamp ELSE @,
                !.last_move_timestamp = IF diff > 0 THEN timestamp ELSE @],
             events, FALSE)

\* _handle_move_event with the cap one too high: min(diff, 8)
handle_move_event_cap_eight(msg, timestamp) ==
  IF last_serial = -1 THEN Handled(Fields, <<>>, FALSE)
  ELSE LET serial == get_bit_word(msg, 4, 8)
           diff == Min((serial - last_serial) % 256, 8)
           events == MoveLoop(msg, timestamp, serial, diff - 1, cube_timestamp)
       IN Handled([Fields EXCEPT
                     !.last_serial = serial,
                     !.cube_timestamp =
                        IF diff > 0 THEN events[Len(events)].cube_timestamp ELSE @,
                     !.last_move_timestamp = IF diff > 0 THEN timestamp ELSE @],
                  events, FALSE)

\* _handle_move_event
handle_move_event(msg, timestamp) ==
  IF last_serial = -1 THEN Handled(Fields, <<>>, FALSE)
  ELSE LET serial == get_bit_word(msg, 4, 8)
           diff == Min((serial - last_serial) % 256, 7)
           events == MoveLoop(msg, timestamp, serial, diff - 1, cube_timestamp)
       IN Handled([Fields EXCEPT
                     !.last_serial = serial,
                     !.cube_timestamp =
                        IF diff > 0 THEN events[Len(events)].cube_timestamp ELSE @,
                     !.last_move_timestamp = IF diff > 0 THEN timestamp ELSE @],
                  events, FALSE)

(***************************************************************************)
(* to_kociemba_facelets (utils.py).  Positions are 0-based as in the       *)
(* source; the facelet string is a function on 0..53.                      *)
(***************************************************************************)
centers == <<4, 13, 22, 31, 40, 49>>
center_colors == <<"U", "R", "F", "D", "L", "B">>
corner_positions ==
  << <<0, 9, 20>>, <<2, 36, 11>>, <<8, 18, 38>>, <<6, 27, 29>>,
     <<51, 35, 17>>, <<53, 26, 44>>, <<47, 15, 42>>, <<45, 24, 33>> >>
corner_colors ==
  << <<"U", "R", "F">>, <<"U", "B", "R">>, <<"U", "L", "B">>, <<"U", "F", "L">>,
     <<"D", "F", "R">>, <<"D", "R", "B">>, <<"D", "B", "L">>, <<"D", "L", "F">> >>
\* edge_positions with the first edge's second facelet at 4, a center
edge_positions_overlapping ==
  << <<1, 4>>, <<5, 10>>, <<7, 19>>, <<3, 28>>,
     <<52, 16>>, <<50, 43>>, <<46, 25>>, <<48, 34>>,
     <<12, 21>>, <<14, 23>>, <<32, 41>>, <<30, 39>> >>
edge_positions ==
  << <<1, 37>>, <<5, 10>>, <<7, 19>>, <<3, 28>>,
     <<52, 16>>, <<50, 43>>, <<46, 25>>, <<48, 34>>,
     <<12, 21>>, <<14, 23>>, <<32, 41>>, <<30, 39>> >>
edge_colors ==
  << <<"U", "F">>, <<"U", "R">>, <<"U", "B">>, <<"U", "L">>,
     <<"D", "F">>, <<"D", "R">>, <<"D", "B">>, <<"D", "L">>,
     <<"F", "R">>, <<"F", "L">>, <<"B", "R">>, <<"B", "L">> >>

\* facelets = ['X'] * 54, then the centers
RECURSIVE SetCenters(_, _)
SetCenters(facelets, n) ==
  IF n = 0 THEN facelets
  ELSE [SetCenters(facelets, n - 1) EXCEPT ![centers[n]] = center_colors[n]]

\* for i in range(8): the three facelets of corner i (i is 0-based)
RECURSIVE SetCorners(_, _, _, _)
SetCorners(facelets, cp, co, n) ==
  IF n = 0 THEN facelets
  ELSE LET i == n - 1
           positions == corner_positions[i + 1]
           colors == corner_colors[cp[i + 1] + 1]
           orientation == co[i + 1]
       IN [SetCorners(facelets, cp, co, n - 1) EXCEPT
             ![positions[1]] = colors[((0 + orientation) % 3) + 1],
             ![positions[2]] = colors[((1 + orientation) % 3) + 1],
             ![positions[3]] = colors[((2 + orientation) % 3) + 1]]

\* for i in range(12): the two facelets of edge i (i is 0-based)
RECURSIVE SetEdges(_, _, _, _)
SetEdges(facelets, ep, eo, n) ==
  IF n = 0 THEN facelets
  ELSE LET i == n - 1
           positions == edge_positions[i + 1]
           colors == edge_colors[ep[i + 1] + 1]
           orientation == eo[i + 1]
       IN [SetEdges(facelets, ep, eo, n - 1) EXCEPT
             ![positions[1]] = colors[orientation + 1],
             ![positions[2]] = colors[(1 - orientation) + 1]]

\* the list indexings of to_kociemba_facelets that raise IndexError:
\* corner_colors[piece], edge_colors[piece], colors[orientation]
KociembaRaises(cp, co, ep, eo) ==
  \/ \E i \in 1..8 : cp[i] >= Len(corner_colors)
  \/ \E i \in 1..12 : ep[i] >= Len(edge_colors)
  \/ \E i \in 1..12 : eo[i] >= 2

to_kociemba_facelets(cp, co, ep, eo) ==
  SetEdges(SetCorners(SetCenters([p \in 0..53 |-> "X"], 6), cp, co, 8), ep, eo, 12)

(***************************************************************************)
(* _handle_facelets_event and the other handlers.                          *)
(***************************************************************************)
\* cp with the last corner taken modulo 7
FaceletsCPMod7(msg) ==
  LET w == AsTuple([i \in 1..7 |-> get_bit_word(msg, 12 + (i - 1) * 3, 3)], 7)
  IN Append(w, (28 - SumSeq(w)) % 7)

\* cp: 7 fields of 3 bits, then (28 - sum(cp)) % 8
FaceletsCP(msg) ==
  LET w == AsTuple([i \in 1..7 |-> get_bit_word(msg, 12 + (i - 1) * 3, 3)], 7)
  IN Append(w, (28 - SumSeq(w)) % 8)

\* co with the last corner set to the sum instead of its complement
FaceletsCOSum(msg) ==
  LET w == AsTuple([i \in 1..7 |-> get_bit_word(msg, 33 + (i - 1) * 2, 2)], 7)
  IN Append(w, SumSeq(w) % 3)

\* co: 7 fields of 2 bits, then (3 - (sum(co) % 3)) % 3
FaceletsCO(msg) ==
  LET w == AsTuple([i \in 1..7 |-> get_bit_word(msg, 33 + (i - 1) * 2, 2)], 7)
  IN Append(w, (3 - (SumSeq(w) % 3)) % 3)

\* ep with the last edge taken from 55, the sum of 0..10
FaceletsEPFrom55(msg) ==
  LET w == AsTuple([i \in 1..11 |-> get_bit_word(msg, 47 + (i - 1) * 4, 4)], 11)
  IN Append(w, (55 - SumSeq(w)) % 12)

\* ep: 11 fields of 4 bits, then (66 - sum(ep)) % 12
FaceletsEP(msg) ==
  LET w == AsTuple([i \in 1..11 |-> get_bit_word(msg, 47 + (i - 1) * 4, 4)], 11)
  IN Append(w, (66 - SumSeq(w)) % 12)

\* eo: 11 fields of 1 bit, then (2 - (sum(eo) % 2)) % 2
FaceletsEO(msg) ==
  LET w == AsTuple([i \in 1..11 |-> get_bit_word(msg, 91 + (i - 1), 1)], 11)
  IN Append(w, (2 - (SumSeq(w) % 2)) % 2)

\* _handle_facelets_event setting last_serial on every frame
handle_facelets_event_rebaselining(msg, timestamp) ==
  LET serial == get_bit_word(msg, 4, 8)
      st == [Fields EXCEPT !.last_serial = serial]
      cp == FaceletsCP(msg)
      co == FaceletsCO(msg)
      ep == FaceletsEP(msg)
      eo == FaceletsEO(msg)
  IN IF KociembaRaises(cp, co, ep, eo) THEN Handled(st, <<>>, TRUE)
     ELSE Handled(st,
                  << [type |-> "FACELETS",
                      serial |-> serial,
                      facelets |-> to_kociemba_facelets(cp, co, ep, eo),
                      state |-> [CP |-> cp, CO |-> co, EP |-> ep, EO |-> eo]] >>,
                  FALSE)

\* _handle_facelets_event: the baseline is set before the state is parsed,
\* so it stays set when to_kociemba_facelets raises
handle_facelets_event(msg, timestamp) ==
  LET serial == get_bit_word(msg, 4, 8)
      st == [Fields EXCEPT !.last_serial = IF @ = -1 THEN serial ELSE @]
      cp == FaceletsCP(msg)
      co == FaceletsCO(msg)
      ep == FaceletsEP(msg)
      eo == FaceletsEO(msg)
  IN IF KociembaRaises(cp, co, ep, eo) THEN Handled(st, <<>>, TRUE)
     ELSE Handled(st,
                  << [type |-> "FACELETS",
                      serial |-> serial,
                      facelets |-> to_kociemba_facelets(cp, co, ep, eo),
                      state |-> [CP |-> cp, CO |-> co, EP |-> ep, EO |-> eo]] >>,
                  FALSE)

\* str.strip(): the characters Python treats as whitespace, among chr(1..255)
PyWhitespace == {9, 10, 11, 12, 13, 28, 29, 30, 31, 32, 133, 160}
RECURSIVE LStrip(_)
LStrip(s) == IF s # <<>> /\ Head(s) \in PyWhitespace THEN LStrip(Tail(s)) ELSE s
RECURSIVE RStrip(_)
RStrip(s) ==
  IF s # <<>> /\ s[Len(s)] \in PyWhitespace THEN RStrip(SubSeq(s, 1, Len(s) - 1)) ELSE s

\* hardware_name with every character appended, the zero ones too
RECURSIVE HardwareNameKeepNul(_, _)
HardwareNameKeepNul(msg, n) ==
  IF n = 0 THEN <<>>
  ELSE HardwareNameKeepNul(msg, n - 1) \o <<get_bit_word(msg, (n - 1) * 8 + 40, 8)>>

\* hardware_name: the non-zero character codes among the 8 bytes, in order
RECURSIVE HardwareName(_, _)
HardwareName(msg, n) ==
  IF n = 0 THEN <<>>
  ELSE LET char_code == get_bit_word(msg, (n - 1) * 8 + 40, 8)
       IN HardwareName(msg, n - 1) \o (IF char_code # 0 THEN <<char_code>> ELSE <<>>)

\* _handle_hardware_event taking the frame for the start of a session and
\* dropping the baseline
handle_hardware_event_resetting(msg, timestamp) ==
  Handled([Fields EXCEPT !.last_serial = -1],
          << [type |-> "HARDWARE",
              model |-> RStrip(LStrip(HardwareName(msg, 8))),
              firmware |-> <<get_bit_word(msg, 24, 8), get_bit_word(msg, 32, 8)>>,
              protocol |-> "GEN2"] >>,
          FALSE)

\* _handle_hardware_event; model is the string as character codes, firmware
\* f"{sw_major}.{sw_minor}" as the pair it is formatted from
handle_hardware_event(msg, timestamp) ==
  Handled(Fields,
          << [type |-> "HARDWARE",
              model |-> RStrip(LStrip(HardwareName(msg, 8))),
              firmware |-> <<get_bit_word(msg, 24, 8), get_bit_word(msg, 32, 8)>>,
              protocol |-> "GEN2"] >>,
          FALSE)

\* _handle_battery_event with the level byte passed on as read
handle_battery_event_unclamped(msg, timestamp) ==
  Handled(Fields,
          << [type |-> "BATTERY", percent |-> get_bit_word(msg, 8, 8)] >>,
          FALSE)

\* _handle_battery_event
handle_battery_event(msg, timestamp) ==
  Handled(Fields,
          << [type |-> "BATTERY", percent |-> Min(get_bit_word(msg, 8, 8), 100)] >>,
          FALSE)

(***************************************************************************)
(* Orientation.  A quaternion component is kept as its numerator over      *)
(* 0x7FFF: (1 - (q >> 15) * 2) * (q & 0x7FFF).                             *)
(***************************************************************************)
GYRO_BUFFER_SIZE == 5
GYRO_RATE_LIMIT_MS == 16

QuatComponent(q) == (1 - (q \div 32768) * 2) * (q % 32768)

(***************************************************************************)
(* Exact arithmetic for the quaternion tests.  A natural number is kept as *)
(* its digits in base BigBase, lowest first, with no leading zero digit;   *)
(* zero is the empty sequence.                                             *)
(***************************************************************************)
BigBase == 10000

RECURSIVE BigFromInt(_)
BigFromInt(n) == IF n = 0 THEN <<>> ELSE <<n % BigBase>> \o BigFromInt(n \div BigBase)

RECURSIVE BigTrim(_)
BigTrim(a) ==
  IF Len(a) = 0 THEN a
  ELSE IF a[Len(a)] = 0 THEN BigTrim(SubSeq(a, 1, Len(a) - 1)) ELSE a

\* the digits of the number whose k-th place holds raw[k] (any natural)
RECURSIVE BigCarry(_, _)
BigCarry(raw, carry) ==
  IF Len(raw) = 0 THEN BigFromInt(carry)
  ELSE <<(raw[1] + carry) % BigBase>> \o BigCarry(Tail(raw), (raw[1] + carry) \div BigBase)

BigDigit(a, k) == IF k >= 1 /\ k <= Len(a) THEN a[k] ELSE 0

BigAdd(a, b) ==
  LET n == IF Len(a) > Len(b) THEN Len(a) ELSE Len(b)
  IN BigTrim(BigCarry(AsTuple([k \in 1..n |-> BigDigit(a, k) + BigDigit(b, k)], n), 0))

BigMul(a, b) ==
  LET n == Len(a) + Len(b)
  IN BigTrim(BigCarry(AsTuple([k \in 1..n |->
                                 SumSeq(AsTuple([i \in 1..Len(a) |->
                                                   a[i] * BigDigit(b, k + 1 - i)], Len(a)))], n), 0))

\* -1, 0 or 1 as a is below, equal to or above b
RECURSIVE BigCmp(_, _)
BigCmp(a, b) ==
  IF Len(a) # Len(b) THEN (IF Len(a) < Len(b) THEN -1 ELSE 1)
  ELSE IF Len(a) = 0 THEN 0
  ELSE IF a[Len(a)] # b[Len(b)] THEN (IF a[Len(a)] < b[Len(b)] THEN -1 ELSE 1)
  ELSE BigCmp(SubSeq(a, 1, Len(a) - 1), SubSeq(b, 1, Len(b) - 1))

\* a - b for a >= b
RECURSIVE BigBorrow(_, _, _)
BigBorrow(a, b, borrow) ==
  IF Len(a) = 0 THEN <<>>
  ELSE LET d == a[1] - BigDigit(b, 1) - borrow
       IN <<(d + BigBase) % BigBase>>
          \o BigBorrow(Tail(a), IF Len(b) = 0 THEN b ELSE Tail(b), IF d < 0 THEN 1 ELSE 0)

BigSub(a, b) == BigTrim(BigBorrow(a, b, 0))

Abs(n) == IF n < 0 THEN -n ELSE n

\* |a * b| for two integers
BigProduct(a, b) == BigMul(BigFromInt(Abs(a)), BigFromInt(Abs(b)))

(***************************************************************************)
(* Quaternion (utils.py).  A quaternion value is [v, s]: the vector        *)
(* <<x, y, z, w>> of integers v divided by the square root of the natural  *)
(* number s.  A decoded sample has s = 0x7FFF squared.                     *)
(***************************************************************************)
QuatVector(q) == <<q.x, q.y, q.z, q.w>>

Quaternion(q) == [v |-> QuatVector(q), s |-> BigProduct(32767, 32767)]

\* x1*x2 + y1*y2 + z1*z2 + w1*w2 of two integer vectors, as sign and size
QuatDot(a, b) ==
  LET plus == { i \in 1..4 : (a[i] > 0 /\ b[i] > 0) \/ (a[i] < 0 /\ b[i] < 0) }
      term(i) == BigProduct(a[i], b[i])
      part(S) == BigAdd(BigAdd(IF 1 \in S THEN term(1) ELSE <<>>,
                               IF 2 \in S THEN term(2) ELSE <<>>),
                        BigAdd(IF 3 \in S THEN term(3) ELSE <<>>,
                               IF 4 \in S THEN term(4) ELSE <<>>))
      pos == part(plus)
      neg == part((1..4) \ plus)
  IN IF BigCmp(pos, neg) >= 0 THEN [negative |-> FALSE, size |-> BigSub(pos, neg)]
     ELSE [negative |-> TRUE, size |-> BigSub(neg, pos)]

\* normalize_quaternion: (0, 0, 0, 1) for length 0, else q / length
normalize_quaternion(q) ==
  IF q.v = <<0, 0, 0, 0>> THEN [v |-> <<0, 0, 0, 1>>, s |-> <<1>>]
  ELSE [v |-> q.v, s |-> QuatDot(q.v, q.v).size]

\* slerp_quaternions negating q2 when dot >= 0 instead of when dot < 0, so
\* that the dot product it goes on with is never positive
slerp_quaternions_negating(q1, q2, twice_t) ==
  LET d0 == QuatDot(q1.v, q2.v)
      v2 == IF ~d0.negative THEN [i \in 1..4 |-> -q2.v[i]] ELSE q2.v
      mid == [i \in 1..4 |-> q1.v[i] + v2[i]]
  IN IF twice_t = 2 THEN [v |-> v2, s |-> q2.s]
     ELSE [v |-> mid, s |-> BigMul(<<2>>, BigSub(q1.s, d0.size))]

\* slerp_quaternions(q1, q2, t) for t = twice_t / 2 in {0.5, 1}; for t = 0.5
\* both operands are decoded samples (q1.s = q2.s).  With theta_0 =
\* acos(dot): at t = 1, s0 = 0 and s1 = 1; at t = 0.5,
\* s0 = s1 = 1 / sqrt(2 * (1 + dot)).
slerp_quaternions(q1, q2, twice_t) ==
  LET d0 == QuatDot(q1.v, q2.v)
      v2 == IF d0.negative THEN [i \in 1..4 |-> -q2.v[i]] ELSE q2.v
      dot == d0.size
      \* dot > 0.9995, that is (2000 * dot)^2 > 1999^2 * q1.s * q2.s
      close == BigCmp(BigMul(BigMul(dot, dot), BigFromInt(4000000)),
                      BigMul(BigFromInt(3996001), BigMul(q1.s, q2.s))) > 0
      mid == [i \in 1..4 |-> q1.v[i] + v2[i]]
  IN IF close
     THEN normalize_quaternion(IF twice_t = 2 THEN [v |-> v2, s |-> q2.s]
                               ELSE [v |-> mid, s |-> q1.s])
     ELSE IF twice_t = 2 THEN [v |-> v2, s |-> q2.s]
          ELSE [v |-> mid, s |-> BigMul(<<2>>, BigAdd(q1.s, dot))]

\* the loop of smooth_orientation_data from index i on, weight i / (n - 1)
RECURSIVE SlerpChain(_, _, _)
SlerpChain(result, recent, i) ==
  IF i > Len(recent) - 1 THEN result
  ELSE SlerpChain(slerp_quaternions(result, Quaternion(recent[i + 1]),
                                    (2 * i) \div (Len(recent) - 1)),
                  recent, i + 1)

\* smooth_orientation_data answering for a single sample too: the loop
\* does not run and the result is recent[0]
smooth_orientation_data_from_one(orientations, window_size) ==
  IF Len(orientations) < 1 THEN [none |-> TRUE, result |-> <<>>]
  ELSE LET n == Min(window_size, Len(orientations))
           recent == [k \in 1..n |-> orientations[Len(orientations) - n + k].quaternion]
       IN [none |-> FALSE, result |-> SlerpChain(Quaternion(recent[1]), recent, 1)]

\* smooth_orientation_data(orientations, window_size), window_size <= 3:
\* None below 2 samples, else the SLERP chain over
\* recent = orientations[-window_size:]
smooth_orientation_data(orientations, window_size) ==
  IF Len(orientations) < 2 THEN [none |-> TRUE, result |-> <<>>]
  ELSE LET n == Min(window_size, Len(orientations))
           recent == [k \in 1..n |-> orientations[Len(orientations) - n + k].quaternion]
       IN [none |-> FALSE, result |-> SlerpChain(Quaternion(recent[1]), recent, 1)]

MAX_TIMESTAMP_HISTORY == 20

\* _update_timestamp_sync: the history with the pair appended, the oldest
\* dropped above MAX_TIMESTAMP_HISTORY
update_timestamp_sync(cube_time, host_time) ==
  LET pushed == Append(gyro_timestamp_history,
                       [cube_time |-> cube_time, host_time |-> host_time])
  IN IF Len(pushed) > MAX_TIMESTAMP_HISTORY THEN Tail(pushed) ELSE pushed

\* cube_timestamp_linear_fit; slope and intercept are kept as exact
\* fractions num / den with den > 0
cube_timestamp_linear_fit(data_points) ==
  LET n == Len(data_points)
      sum_x == SumSeq(AsTuple([i \in 1..n |-> data_points[i].cube_time], n))
      sum_y == SumSeq(AsTuple([i \in 1..n |-> data_points[i].host_time], n))
      sum_xy == SumSeq(AsTuple([i \in 1..n |->
                                  data_points[i].cube_time * data_points[i].host_time], n))
      sum_xx == SumSeq(AsTuple([i \in 1..n |->
                                  data_points[i].cube_time * data_points[i].cube_time], n))
      denominator == n * sum_xx - sum_x * sum_x
      identity == [slope |-> [num |-> 1, den |-> 1], intercept |-> [num |-> 0, den |-> 1]]
      top == n * sum_xy - sum_x * sum_y
      sgn == IF denominator < 0 THEN -1 ELSE 1
  IN IF n < 2 THEN identity
     ELSE IF denominator = 0 THEN identity
     ELSE [slope |-> [num |-> sgn * top, den |-> sgn * denominator],
           intercept |-> [num |-> sgn * (sum_y * denominator - top * sum_x),
                          den |-> sgn * n * denominator]]

\* round(num / den), den > 0: to the nearest integer, a tie to the even one
Round(num, den) ==
  LET floor == num \div den
      twice == 2 * (num - floor * den)
  IN IF twice < den THEN floor
     ELSE IF twice > den THEN floor + 1
     ELSE IF floor % 2 = 0 THEN floor ELSE floor + 1

\* round(fit.slope * cube_timestamp + fit.intercept); the intercept's
\* denominator is a multiple of the slope's
FitAt(fit, d) ==
  Round(fit.slope.num * d * (fit.intercept.den \div fit.slope.den) + fit.intercept.num,
        fit.intercept.den)

\* _get_synchronized_timestamp always going through the fit
get_synchronized_timestamp_by_fit(d, host_now) ==
  FitAt(cube_timestamp_linear_fit(gyro_timestamp_history), d)

\* _get_synchronized_timestamp(cube_timestamp); host_now is what now() gives
get_synchronized_timestamp(d, host_now) ==
  IF Len(gyro_timestamp_history) < 2 THEN host_now
  ELSE FitAt(cube_timestamp_linear_fit(gyro_timestamp_history), d)

\* _process_gyro_data without the rate limit
process_gyro_data_unlimited(quaternion, timestamp, cube_ts) ==
  LET history == IF cube_ts # NoneVal THEN update_timestamp_sync(cube_ts, timestamp)
                 ELSE gyro_timestamp_history
      pushed == Append(gyro_buffer, [quaternion |-> quaternion, timestamp |-> timestamp])
      buffer == IF Len(pushed) > GYRO_BUFFER_SIZE THEN Tail(pushed) ELSE pushed
      smoothed == smooth_orientation_data(buffer, Min(3, Len(buffer)))
      st == [Fields EXCEPT !.gyro_buffer = buffer, !.gyro_timestamp_history = history]
  IN IF smoothed.none THEN Handled(st, <<>>, FALSE)
     ELSE Handled([st EXCEPT !.last_gyro_emit = timestamp],
                  << [type |-> "ORIENTATION",
                      quaternion |-> smoothed.result,
                      local_timestamp |-> timestamp,
                      cube_timestamp |-> cube_ts] >>,
                  FALSE)

\* _process_gyro_data with the buffer never trimmed
process_gyro_data_untrimmed(quaternion, timestamp, cube_ts) ==
  IF timestamp - last_gyro_emit < GYRO_RATE_LIMIT_MS THEN Handled(Fields, <<>>, FALSE)
  ELSE LET history == IF cube_ts # NoneVal THEN update_timestamp_sync(cube_ts, timestamp)
                      ELSE gyro_timestamp_history
           buffer == Append(gyro_buffer, [quaternion |-> quaternion, timestamp |-> timestamp])
           smoothed == smooth_orientation_data(buffer, Min(3, Len(buffer)))
           st == [Fields EXCEPT !.gyro_buffer = buffer, !.gyro_timestamp_history = history]
       IN IF smoothed.none THEN Handled(st, <<>>, FALSE)
          ELSE Handled([st EXCEPT !.last_gyro_emit = timestamp],
                       << [type |-> "ORIENTATION",
                           quaternion |-> smoothed.result,
                           local_timestamp |-> timestamp,
                           cube_timestamp |-> cube_ts] >>,
                       FALSE)

\* _process_gyro_data(quaternion, timestamp, cube_timestamp); cube_ts is
\* NoneVal when the caller passes no device time
process_gyro_data(quaternion, timestamp, cube_ts) ==
  IF timestamp - last_gyro_emit < GYRO_RATE_LIMIT_MS THEN Handled(Fields, <<>>, FALSE)
  ELSE LET history == IF cube_ts # NoneVal THEN update_timestamp_sync(cube_ts, timestamp)
                      ELSE gyro_timestamp_history
           pushed == Append(gyro_buffer, [quaternion |-> quaternion, timestamp |-> timestamp])
           buffer == IF Len(pushed) > GYRO_BUFFER_SIZE THEN Tail(pushed) ELSE pushed
           smoothed == smooth_orientation_data(buffer, Min(3, Len(buffer)))
           st == [Fields EXCEPT !.gyro_buffer = buffer, !.gyro_timestamp_history = history]
       IN IF smoothed.none THEN Handled(st, <<>>, FALSE)
          ELSE Handled([st EXCEPT !.last_gyro_emit = timestamp],
                       << [type |-> "ORIENTATION",
                           quaternion |-> smoothed.result,
                           local_timestamp |-> timestamp,
                           cube_timestamp |-> cube_ts] >>,
                       FALSE)

\* _handle_gyro_event
handle_gyro_event(msg, timestamp) ==
  LET qw == get_bit_word(msg, 4, 16)
      qx == get_bit_word(msg, 20, 16)
      qy == get_bit_word(msg, 36, 16)
      qz == get_bit_word(msg, 52, 16)
  IN process_gyro_data([x |-> QuatComponent(qx), y |-> QuatComponent(qy),
                        z |-> QuatComponent(qz), w |-> QuatComponent(qw)],
                       timestamp, NoneVal)

(***************************************************************************)
(* decode_event.                                                           *)
(***************************************************************************)
\* no encrypter: GanGen2Protocol(None)
NoEncrypter == [present |-> FALSE, raised |-> FALSE, key |-> <<>>, iv |-> <<>>]

\* _decrypt: through the encrypter when there is one
protocol_decrypt(data) ==
  IF encrypter.present THEN decrypt(encrypter, data)
  ELSE [raised |-> FALSE, out |-> data]

\* _encrypt: through the encrypter when there is one
protocol_encrypt(data) ==
  IF encrypter.present THEN encrypt(encrypter, data)
  ELSE [raised |-> FALSE, out |-> data]

CommandType == {"REQUEST_HARDWARE", "REQUEST_FACELETS", "REQUEST_BATTERY", "REQUEST_RESET"}

\* bytearray(20) with the first bytes assigned
CommandBuffer(head) == AsTuple([i \in 1..20 |-> IF i <= Len(head) THEN head[i] ELSE 0], 20)
reset_data == <<10, 5, 57, 119, 0, 0, 1, 35, 69, 103, 137, 171, 0, 0, 0, 0, 0, 0, 0, 0>>

\* the message encode_command builds before it encrypts; <<>> for a type it
\* does not know
CommandMessage(command) ==
  CASE command = "REQUEST_FACELETS" -> CommandBuffer(<<4>>)
    [] command = "REQUEST_HARDWARE" -> CommandBuffer(<<5>>)
    [] command = "REQUEST_BATTERY" -> CommandBuffer(<<9>>)
    [] command = "REQUEST_RESET" -> CommandBuffer(reset_data)
    [] OTHER -> <<>>

\* encode_command returning the message as built, not encrypted
encode_command_plain(command) ==
  IF command \notin CommandType THEN [none |-> TRUE, raised |-> FALSE, out |-> <<>>]
  ELSE [none |-> FALSE, raised |-> FALSE, out |-> CommandMessage(command)]

\* encode_command writing the low byte of last_serial into msg[1]
encode_command_stamped(command) ==
  IF command \notin CommandType THEN [none |-> TRUE, raised |-> FALSE, out |-> <<>>]
  ELSE [none |-> FALSE] @@
       protocol_encrypt([CommandMessage(command) EXCEPT ![2] = last_serial % 256])

\* encode_command: None for an unknown type, else the encrypted message
encode_command(command) ==
  IF command \notin CommandType THEN [none |-> TRUE, raised |-> FALSE, out |-> <<>>]
  ELSE [none |-> FALSE] @@ protocol_encrypt(CommandMessage(command))

\* the dispatch without the branch of tag 0x3
DispatchWithoutTagThree(msg, timestamp) ==
  LET event_type == get_bit_word(msg, 0, 4)
  IN CASE event_type = 1 -> handle_gyro_event(msg, timestamp)
       [] event_type = 2 -> handle_move_event(msg, timestamp)
       [] event_type = 4 -> handle_facelets_event(msg, timestamp)
       [] event_type = 5 -> handle_hardware_event(msg, timestamp)
       [] event_type = 9 -> handle_battery_event(msg, timestamp)
       [] OTHER -> Handled(Fields, <<>>, FALSE)

\* the dispatch of decode_event on the 4-bit tag of the decrypted frame
Dispatch(msg, timestamp) ==
  LET event_type == get_bit_word(msg, 0, 4)
  IN CASE event_type = 1 -> handle_gyro_event(msg, timestamp)
       [] event_type = 2 -> handle_move_event(msg, timestamp)
       [] event_type = 3 -> handle_facelets_event(msg, timestamp)
       [] event_type = 4 -> handle_facelets_event(msg, timestamp)
       [] event_type = 5 -> handle_hardware_event(msg, timestamp)
       [] event_type = 9 -> handle_battery_event(msg, timestamp)
       [] OTHER -> Handled(Fields, <<>>, FALSE)

\* decode_event ending with "return events": an empty list when there are none
decode_event_returns_events(data, timestamp) ==
  LET dec == protocol_decrypt(data)
  IN IF dec.raised
     THEN [st |-> Fields, events |-> <<>>, ret |-> "raised", plain |-> <<>>]
     ELSE LET h == Dispatch(MessageBits(dec.out), timestamp)
          IN [st |-> h.st,
              events |-> h.events,
              ret |-> IF h.raised THEN "raised" ELSE "list",
              plain |-> dec.out]

\* decode_event(data) at host time timestamp: the new fields, and what the
\* call gives back: ret is "raised", "None" (no events) or "list"
decode_event(data, timestamp) ==
  LET dec == protocol_decrypt(data)
  IN IF dec.raised
     THEN [st |-> Fields, events |-> <<>>, ret |-> "raised", plain |-> <<>>]
     ELSE LET h == Dispatch(MessageBits(dec.out), timestamp)
          IN [st |-> h.st,
              events |-> h.events,
              ret |-> IF h.raised THEN "raised"
                      ELSE IF h.events = <<>> THEN "None" ELSE "list",
              plain |-> dec.out]

(***************************************************************************)
(* Inputs: plaintext frames built field by field, as the cube sends them.  *)
(***************************************************************************)
\* the w-bit field holding v, MSB first
BitsOf(v, w) == AsTuple([k \in 1..w |-> (v \div Pow2(w - k)) % 2], w)

RECURSIVE Flatten(_)
Flatten(ss) == IF ss = <<>> THEN <<>> ELSE Head(ss) \o Flatten(Tail(ss))

\* n bytes from a bit string, zero-padded on the right
PackBytes(bits, n) ==
  AsTuple([b \in 1..n |->
             IntBase2([k \in 1..8 |->
                         IF 8 * (b - 1) + k <= Len(bits) THEN bits[8 * (b - 1) + k] ELSE 0])], n)

\* Move frame: tag 2, serial, 7 slots of face(4)+direction(1), 7 elapsed(16)
MoveFrame(serial, faces, dirs, elapsed, n) ==
  PackBytes(BitsOf(2, 4) \o BitsOf(serial, 8)
            \o Flatten([i \in 1..7 |-> BitsOf(faces[i], 4) \o BitsOf(dirs[i], 1)])
            \o Flatten([i \in 1..7 |-> BitsOf(elapsed[i], 16)]), n)

\* Facelets frame: tag, serial, 7 cp(3), 7 co(2), 11 ep(4), 11 eo(1)
FaceletsFrame(tag, serial, cp, co, ep, eo, n) ==
  PackBytes(BitsOf(tag, 4) \o BitsOf(serial, 8)
            \o Flatten([i \in 1..7 |-> BitsOf(cp[i], 3)])
            \o Flatten([i \in 1..7 |-> BitsOf(co[i], 2)])
            \o Flatten([i \in 1..11 |-> BitsOf(ep[i], 4)])
            \o Flatten([i \in 1..11 |-> BitsOf(eo[i], 1)]), n)

\* Orientation frame: tag 1 and four 16-bit sign-magnitude codes
OrientationFrame(qw, qx, qy, qz) ==
  PackBytes(BitsOf(1, 4) \o BitsOf(qw, 16) \o BitsOf(qx, 16)
            \o BitsOf(qy, 16) \o BitsOf(qz, 16), 20)

\* a frame given by its first bytes, zero-filled to n bytes
ByteFrame(head, n) == AsTuple([i \in 1..n |-> IF i <= Len(head) THEN head[i] ELSE 0], n)

SlotFaces == <<0, 1, 2, 3, 4, 5, 9>>
SlotDirs == <<0, 1, 0, 1, 1, 0, 1>>
SlotElapsed == <<100, 0, 300, 65535, 5, 0, 7>>
MoveSerials == {250, 252, 255, 1, 4, 10, 130}
MoveFrames ==
  {MoveFrame(s, SlotFaces, SlotDirs, SlotElapsed, 20) : s \in MoveSerials}
  \cup {MoveFrame(253, SlotFaces, SlotDirs, SlotElapsed, 16)}

Zeros(n) == AsTuple([i \in 1..n |-> 0], n)
SolvedCP == <<0, 1, 2, 3, 4, 5, 6>>
SolvedEP == <<0, 1, 2, 3, 4, 5, 6, 7, 8, 9, 10>>
FaceletsFrames ==
  { FaceletsFrame(4, 250, SolvedCP, Zeros(7), SolvedEP, Zeros(11), 20),
    FaceletsFrame(3, 3, <<7, 1, 2, 3, 4, 5, 0>>, <<1, 2, 0, 0, 0, 2, 2>>,
                  <<11, 1, 2, 3, 4, 5, 6, 7, 8, 9, 0>>, <<1, 0, 0, 1, 0, 0, 0, 0, 0, 0, 1>>, 20),
    \* repeated pieces and an orientation code of 3: not a cube state
    FaceletsFrame(4, 250, Zeros(7), <<3, 3, 1, 0, 0, 0, 0>>, <<5, 5, 5, 5, 5, 5, 5, 5, 5, 5, 5>>,
                  Zeros(11), 20),
    \* an edge code above 11
    FaceletsFrame(4, 3, SolvedCP, Zeros(7), <<12, 1, 2, 3, 4, 5, 6, 7, 8, 9, 10>>, Zeros(11), 20),
    \* a short frame: the fields past byte 16 are missing
    FaceletsFrame(4, 255, SolvedCP, Zeros(7), SolvedEP, Zeros(11), 16),
    \* tag 4 and every other bit set
    AsTuple([i \in 1..20 |-> IF i = 1 THEN 79 ELSE 255], 20) }

OrientationFrames ==
  { OrientationFrame(32767, 0, 0, 0), OrientationFrame(16384, 49152, 0, 1) }

OtherFrames ==
  { ByteFrame(<<144, 87>>, 20),            \* Battery, 87 %
    ByteFrame(<<144, 200>>, 20),           \* Battery, level byte 200
    \* Hardware 1.2, software 3.4, name bytes " G\0AN \0\0"
    ByteFrame(<<80, 1, 2, 3, 4, 32, 71, 0, 65, 78, 32, 0, 0>>, 20),
    ByteFrame(<<208>>, 20),                \* Disconnect
    ByteFrame(<<240, 255, 255>>, 20) }     \* unknown tag 0xF

\* host time between two notifications, in ms
ClockSteps == {5, 20}

\* the salt of the connected device (reversed MAC)
DeviceSalt == <<135, 24, 13, 26, 202, 211>>
DeviceEncrypter ==
  [present |-> TRUE] @@
  GanGen2CubeEncrypter(GAN_ENCRYPTION_KEYS[1].key, GAN_ENCRYPTION_KEYS[1].iv, DeviceSalt)

\* the cube's side: the encrypted frame it sends for a plaintext frame
OnWire(plain) == encrypt(DeviceEncrypter, plain).out

\* truncated notifications: the first bytes of an encrypted Facelets frame
ShortLengths == {0, 4, 15}
ShortWires ==
  { SubSeq(OnWire(FaceletsFrame(4, 250, SolvedCP, Zeros(7), SolvedEP, Zeros(11), 20)), 1, n) :
      n \in ShortLengths }

\* what the transport delivers: an encrypted frame and the time since the
\* previous notification
Arrivals ==
  ({OnWire(f) : f \in MoveFrames \cup FaceletsFrames \cup OtherFrames} \X {20})
  \cup (ShortWires \X {20})
  \cup ({OnWire(f) : f \in OrientationFrames} \X ClockSteps)

\* host time at construction
StartClock == 1000

(***************************************************************************)
(* The threaded controller (cube_controller_v2_threaded.py): the executor's *)
(* workers run process_move, each roll runs in a thread of its own.  Times  *)
(* are milliseconds, tilts are hundredths.                                  *)
(***************************************************************************)
MaxWorkers == 2
MaxMoves == 3
MaxTicks == 2
Workers == 1..MaxWorkers
ControllerMoves == {"U'", "R"}
Pitches == {0, 65, 80}

DUPLICATE_WINDOW_MS == 50
forward_tilt_threshold == 70
forward_tilt_hysteresis == 10

IdleWorker == [pc |-> "idle", move |-> "none"]

\* SprintStateMachine.__init__, DuplicateFilter.__init__, the executor idle
NoSprint == [sprinting |-> FALSE, rolling |-> FALSE,
             \* the gamepad's B button
             b_held |-> FALSE,
             last_move |-> "none", last_move_time |-> 0,
             \* time.perf_counter_ns() // 1_000_000
             now |-> 1000, ticks |-> 0,
             worker |-> [w \in Workers |-> IdleWorker],
             \* the roll threads started, each with its position in _roll
             rolls |-> <<>>,
             submitted |-> 0]

(***************************************************************************)
(* The decoder specification.                                              *)
(***************************************************************************)
\* the cube connected for the first time: connect() has constructed the
\* protocol; stale_serial is last_serial of the protocol dropped last
FirstConnection == [connected |-> TRUE, protocol |-> TRUE, count |-> 1,
                    stale_serial |-> -1,
                    \* where connect() or disconnect() is suspended
                    pc |-> "idle",
                    \* the BLE stack delivers notifications
                    notifying |-> TRUE,
                    \* the last of 'connected' and 'disconnected' emitted
                    emitted |-> "connected",
                    \* a cube event was emitted while that was not 'connected'
                    outside |-> FALSE]
NoSync == [op |-> "none", d |-> 0, result |-> 0,
           fit |-> [slope |-> [num |-> 0, den |-> 1], intercept |-> [num |-> 0, den |-> 1]]]
NoCommand == [type |-> "none", none |-> TRUE, raised |-> FALSE, data |-> <<>>]
NoCall == [wire |-> <<>>, plain |-> <<>>, timestamp |-> 0, ret |-> "none",
           events |-> <<>>, pre |-> [last_serial |-> -1],
           emitted_at |-> NoneVal, emitted_before |-> NoneVal, accepted |-> <<>>,
           moved_at |-> NoneVal, moved_before |-> NoneVal,
           base |-> NoneVal, stream |-> <<>>, in_step |-> TRUE]
IdleBits == [buf |-> <<>>, off |-> 0, len |-> 0, done |-> FALSE, res |-> 0]
IdleCry == [args |-> [key |-> <<>>, iv |-> <<>>, salt |-> <<>>],
            enc |-> NoEncrypter, plain |-> <<>>, stage |-> "idle",
            cipher |-> <<>>, back |-> <<>>, raised |-> FALSE]

\* GanGen2Protocol.__init__
Init ==
  /\ encrypter = DeviceEncrypter
  /\ last_serial = -1
  /\ last_move_timestamp = 0
  /\ cube_timestamp = 0
  /\ gyro_buffer = <<>>
  /\ last_gyro_emit = 0
  /\ gyro_timestamp_history = <<>>
  /\ clock = StartClock
  /\ call = NoCall
  /\ steps = 0
  /\ facelets_seen = FALSE
  /\ bitrd = IdleBits
  /\ cry = IdleCry
  /\ sent = NoCommand
  /\ sync = NoSync
  /\ conn = FirstConnection
  /\ sprint = NoSprint

\* the serials of the Move events among the events a call returned
RECURSIVE SelectSerials(_)
SelectSerials(events) ==
  IF events = <<>> THEN <<>>
  ELSE (IF Head(events).type = "MOVE" THEN <<Head(events).serial>> ELSE <<>>)
       \o SelectSerials(Tail(events))

\* the transport delivers the encrypted frame; decode_event runs on it; at
\* most bound notifications are delivered
DecodeEventWithin(wire, dt, bound) ==
  /\ steps < bound
  /\ conn.notifying
  /\ conn.protocol
  /\ \E timestamp \in {clock + dt} : \E r \in {decode_event(wire, timestamp)} :
        /\ clock' = timestamp
        /\ last_serial' = r.st.last_serial
        /\ last_move_timestamp' = r.st.last_move_timestamp
        /\ cube_timestamp' = r.st.cube_timestamp
        /\ gyro_buffer' = r.st.gyro_buffer
        /\ last_gyro_emit' = r.st.last_gyro_emit
        /\ gyro_timestamp_history' = r.st.gyro_timestamp_history
        /\ call' = [wire |-> wire, plain |-> r.plain, timestamp |-> timestamp,
                    ret |-> r.ret, events |-> r.events, pre |-> Fields,
                    \* host time of the latest Orientation event returned so
                    \* far, after and before this call
                    emitted_at |->
                      IF \E k \in 1..Len(r.events) : r.events[k].type = "ORIENTATION"
                      THEN timestamp ELSE call.emitted_at,
                    emitted_before |-> call.emitted_at,
                    \* the Orientation frames that arrived outside the rate
                    \* limit so far, each with its host time
                    accepted |->
                      IF /\ r.ret # "raised"
                         /\ r.plain[1] \div 16 = 1
                         /\ \/ call.emitted_at = NoneVal
                            \/ timestamp - call.emitted_at >= 16
                      THEN Append(call.accepted, [plain |-> r.plain, timestamp |-> timestamp])
                      ELSE call.accepted,
                    \* host time of the latest call that returned Move events,
                    \* after and before this call
                    moved_at |->
                      IF \E k \in 1..Len(r.events) : r.events[k].type = "MOVE"
                      THEN timestamp ELSE call.moved_at,
                    moved_before |-> call.moved_at,
                    \* the serial the baseline was set to, the serials of the
                    \* Move events returned since, and whether every Move
                    \* frame since was at most 7 ahead of last_serial
                    base |->
                      IF last_serial = -1 /\ r.st.last_serial # -1
                      THEN r.st.last_serial ELSE call.base,
                    stream |->
                      call.stream \o
                      SelectSerials(r.events),
                    in_step |->
                      /\ call.in_step
                      /\ (r.ret # "raised" /\ r.plain[1] \div 16 = 2 /\ last_serial # -1)
                           => ((r.plain[1] % 16) * 16 + (r.plain[2] \div 16) - last_serial) % 256 <= 7]
        /\ facelets_seen' = (facelets_seen \/ (r.plain # <<>> /\ r.plain[1] \div 16 \in {3, 4}))
        \* each event returned is emitted to the registered handlers
        /\ conn' = [conn EXCEPT !.outside =
                       @ \/ (r.events # <<>> /\ conn.emitted # "connected")]
  /\ steps' = steps + 1
  /\ UNCHANGED <<encrypter, bitrd, cry, sent, sync, sprint>>

DecodeEvent(wire, dt) == DecodeEventWithin(wire, dt, MaxSteps)

Decode == \E a \in Arrivals : DecodeEvent(a[1], a[2])

\* a notification that arrives when _protocol is None is dropped
IgnoreNotification ==
  /\ steps < MaxSteps
  /\ ~conn.protocol
  /\ steps' = steps + 1
  /\ UNCHANGED <<decoderVars, clock, call, facelets_seen, bitrd, cry, sent, sync, conn, sprint>>

\* disconnect(): nothing when not connected, else the protocol is dropped
Disconnect ==
  /\ conn.connected
  /\ conn' = [conn EXCEPT !.connected = FALSE, !.protocol = FALSE,
                          !.stale_serial = last_serial,
                          !.notifying = FALSE, !.emitted = "disconnected"]
  /\ UNCHANGED <<decoderVars, clock, call, steps, facelets_seen, bitrd, cry, sent, sync, sprint>>

\* connect() that succeeds but keeps the decoder fields of the protocol
\* that was dropped
ConnectKeepingFields ==
  /\ ~conn.connected
  /\ conn.count < MaxConnections
  /\ conn' = [conn EXCEPT !.connected = TRUE, !.protocol = TRUE, !.count = @ + 1,
                          !.notifying = TRUE, !.emitted = "connected"]
  /\ call' = NoCall
  /\ facelets_seen' = FALSE
  /\ UNCHANGED <<decoderVars, clock, steps, bitrd, cry, sent, sync, sprint>>

\* connect() that succeeds: nothing when already connected, else a new
\* encrypter and a new GanGen2Protocol are constructed; the record of the
\* last call and of the frames seen starts again with the new decoder
Connect ==
  /\ ~conn.connected
  /\ conn.count < MaxConnections
  /\ conn' = [conn EXCEPT !.connected = TRUE, !.protocol = TRUE, !.count = @ + 1,
                          !.notifying = TRUE, !.emitted = "connected"]
  /\ encrypter' = DeviceEncrypter
  /\ last_serial' = -1
  /\ last_move_timestamp' = 0
  /\ cube_timestamp' = 0
  /\ gyro_buffer' = <<>>
  /\ last_gyro_emit' = 0
  /\ gyro_timestamp_history' = <<>>
  /\ call' = NoCall
  /\ facelets_seen' = FALSE
  /\ UNCHANGED <<clock, steps, bitrd, cry, sent, sync, sprint>>

Next == Decode \/ IgnoreNotification \/ Disconnect \/ Connect

Spec == Init /\ [][Next]_vars

(***************************************************************************)
(* The command specification: a protocol constructed for some device, or   *)
(* without an encrypter, encodes the commands the application sends.       *)
(***************************************************************************)
\* salts of other devices: byte i is (stride * i + first) mod 256
CommandSalts ==
  { AsTuple([i \in 1..6 |-> (stride * (i - 1) + first) % 256], 6) :
      stride \in 0..MaxStride, first \in {0, 4, 77, 255} }
CommandEncrypters ==
  { [present |-> TRUE] @@ GanGen2CubeEncrypter(GAN_ENCRYPTION_KEYS[k].key,
                                             GAN_ENCRYPTION_KEYS[k].iv, salt) :
      k \in {1, 2}, salt \in CommandSalts \cup {DeviceSalt} }
  \cup {NoEncrypter}

InitCommand ==
  /\ encrypter \in CommandEncrypters
  /\ last_serial = -1
  /\ last_move_timestamp = 0
  /\ cube_timestamp = 0
  /\ gyro_buffer = <<>>
  /\ last_gyro_emit = 0
  /\ gyro_timestamp_history = <<>>
  /\ clock = StartClock
  /\ call = NoCall
  /\ steps = 0
  /\ facelets_seen = FALSE
  /\ bitrd = IdleBits
  /\ cry = IdleCry
  /\ sent = NoCommand
  /\ sync = NoSync
  /\ conn = FirstConnection
  /\ sprint = NoSprint

\* _send_command: encode_command(command), written to the cube when there
\* is something to write
SendCommand(command) ==
  /\ \E r \in {encode_command(command)} :
        sent' = [type |-> command, none |-> r.none, raised |-> r.raised, data |-> r.out]
  /\ UNCHANGED <<decoderVars, clock, call, steps, facelets_seen, bitrd, cry, sync, conn, sprint>>

Send == \E command \in CommandType : SendCommand(command)

NextCommand == Send

SpecCommand == InitCommand /\ [][NextCommand]_vars

(***************************************************************************)
(* The interleaving specification: the application sends commands between  *)
(* the notifications the decoder handles.                                  *)
(***************************************************************************)
MaxMixSteps == 2

DecodeBetweenCommands == \E a \in Arrivals : DecodeEventWithin(a[1], a[2], MaxMixSteps)

NextMix == DecodeBetweenCommands \/ Send

SpecMix == Init /\ [][NextMix]_vars

(***************************************************************************)
(* The rendering specification: Facelets frames over a family of cube      *)
(* states, the permutations rotated and the orientations varied.           *)
(***************************************************************************)
MaxRenderSteps == 1

RenderFrames ==
  { FaceletsFrame(4, 7, AsTuple([i \in 1..7 |-> (i - 1 + r) % 8], 7), co,
                  AsTuple([i \in 1..11 |-> (i - 1 + e) % 12], 11), eo, 20) :
      r \in 0..7, e \in {0, 5, 11},
      co \in { Zeros(7), <<1, 2, 0, 0, 0, 2, 2>>, <<2, 2, 2, 2, 2, 2, 2>> },
      eo \in { Zeros(11), <<1, 0, 0, 1, 0, 1, 1, 0, 0, 0, 1>> } }

DecodeFacelets ==
  \E f \in RenderFrames : DecodeEventWithin(OnWire(f), 20, MaxRenderSteps)

NextRender == DecodeFacelets

SpecRender == Init /\ [][NextRender]_vars

(***************************************************************************)
(* The lifecycle specification: connect() and disconnect() of GanSmartCube *)
(* run from one await to the next, and the notification callback runs      *)
(* whenever the BLE stack delivers a notification, between any two of      *)
(* these steps.                                                            *)
(***************************************************************************)
MaxLifecycleSteps == 2

\* GanSmartCube.__init__
NotConnected == [connected |-> FALSE, protocol |-> FALSE, count |-> 0,
                 stale_serial |-> -1, pc |-> "idle", notifying |-> FALSE,
                 emitted |-> "none", outside |-> FALSE]

InitLifecycle ==
  /\ encrypter = NoEncrypter
  /\ last_serial = -1
  /\ last_move_timestamp = 0
  /\ cube_timestamp = 0
  /\ gyro_buffer = <<>>
  /\ last_gyro_emit = 0
  /\ gyro_timestamp_history = <<>>
  /\ clock = StartClock
  /\ call = NoCall
  /\ steps = 0
  /\ facelets_seen = FALSE
  /\ bitrd = IdleBits
  /\ cry = IdleCry
  /\ sent = NoCommand
  /\ sync = NoSync
  /\ conn = NotConnected
  /\ sprint = NoSprint

\* connect() up to 'await self._client.start_notify(...)': the encrypter
\* and the protocol are constructed
ConnectBegin ==
  /\ ~conn.connected
  /\ conn.pc = "idle"
  /\ conn.count < MaxConnections
  /\ conn' = [conn EXCEPT !.protocol = TRUE, !.count = @ + 1, !.pc = "start_notify"]
  /\ encrypter' = DeviceEncrypter
  /\ last_serial' = -1
  /\ last_move_timestamp' = 0
  /\ cube_timestamp' = 0
  /\ gyro_buffer' = <<>>
  /\ last_gyro_emit' = 0
  /\ gyro_timestamp_history' = <<>>
  /\ call' = NoCall
  /\ facelets_seen' = FALSE
  /\ UNCHANGED <<clock, steps, bitrd, cry, sent, sync, sprint>>

\* inside start_notify the stack enables the notifications of the state
\* characteristic
StackSubscribes ==
  /\ conn.pc = "start_notify"
  /\ ~conn.notifying
  /\ conn' = [conn EXCEPT !.notifying = TRUE]
  /\ UNCHANGED <<decoderVars, clock, call, steps, facelets_seen, bitrd, cry, sent, sync, sprint>>

\* start_notify returns: _connected = True, 'connected' is emitted, up to
\* 'await self.request_hardware_info()'
ConnectEmit ==
  /\ conn.pc = "start_notify"
  /\ conn.notifying
  /\ conn' = [conn EXCEPT !.connected = TRUE, !.emitted = "connected",
                          !.pc = "request_hardware"]
  /\ UNCHANGED <<decoderVars, clock, call, steps, facelets_seen, bitrd, cry, sent, sync, sprint>>

\* request_hardware_info(): the command is encoded and written; connect()
\* returns
ConnectRequestHardware ==
  /\ conn.pc = "request_hardware"
  /\ \E r \in {encode_command("REQUEST_HARDWARE")} :
        sent' = [type |-> "REQUEST_HARDWARE", none |-> r.none, raised |-> r.raised,
                 data |-> r.out]
  /\ conn' = [conn EXCEPT !.pc = "idle"]
  /\ UNCHANGED <<decoderVars, clock, call, steps, facelets_seen, bitrd, cry, sync, sprint>>

\* disconnect() up to 'await self._client.stop_notify(...)'
DisconnectBegin ==
  /\ conn.connected
  /\ conn.pc = "idle"
  /\ conn' = [conn EXCEPT !.pc = "stop_notify"]
  /\ UNCHANGED <<decoderVars, clock, call, steps, facelets_seen, bitrd, cry, sent, sync, sprint>>

\* inside stop_notify the stack disables the notifications
StackUnsubscribes ==
  /\ conn.pc = "stop_notify"
  /\ conn.notifying
  /\ conn' = [conn EXCEPT !.notifying = FALSE]
  /\ UNCHANGED <<decoderVars, clock, call, steps, facelets_seen, bitrd, cry, sent, sync, sprint>>

\* stop_notify returns or raises, up to 'await self._client.disconnect()'
DisconnectClose ==
  /\ conn.pc = "stop_notify"
  /\ conn' = [conn EXCEPT !.pc = "client_disconnect"]
  /\ UNCHANGED <<decoderVars, clock, call, steps, facelets_seen, bitrd, cry, sent, sync, sprint>>

\* the link is closed: _connected = False, _client = None, _protocol = None,
\* 'disconnected' is emitted
DisconnectEmit ==
  /\ conn.pc = "client_disconnect"
  /\ conn' = [conn EXCEPT !.connected = FALSE, !.protocol = FALSE,
                          !.stale_serial = last_serial, !.notifying = FALSE,
                          !.emitted = "disconnected", !.pc = "idle"]
  /\ UNCHANGED <<decoderVars, clock, call, steps, facelets_seen, bitrd, cry, sent, sync, sprint>>

\* one frame of each kind that gives an event
LifecycleFrames ==
  { FaceletsFrame(4, 250, SolvedCP, Zeros(7), SolvedEP, Zeros(11), 20),
    MoveFrame(252, SlotFaces, SlotDirs, SlotElapsed, 20),
    OrientationFrame(32767, 0, 0, 0),
    ByteFrame(<<144, 87>>, 20),
    ByteFrame(<<80, 1, 2, 3, 4, 32, 71, 0, 65, 78, 32, 0, 0>>, 20) }

\* the notification callback
HandleStateNotification ==
  \E f \in LifecycleFrames : DecodeEventWithin(OnWire(f), 20, MaxLifecycleSteps)

NextLifecycle ==
  \/ ConnectBegin \/ StackSubscribes \/ ConnectEmit \/ ConnectRequestHardware
  \/ DisconnectBegin \/ StackUnsubscribes \/ DisconnectClose \/ DisconnectEmit
  \/ HandleStateNotification

SpecLifecycle == InitLifecycle /\ [][NextLifecycle]_vars

(***************************************************************************)
(* The controller specification: moves are submitted to the executor, the  *)
(* workers run process_move one statement group at a time, the roll        *)
(* threads run _roll from one lock region to the next, orientation samples *)
(* update the sprint state.                                                *)
(***************************************************************************)
protocolVars == <<decoderVars, clock, call, steps, facelets_seen, bitrd, cry, sent,
                  sync, conn>>

\* time passes
Tick ==
  /\ sprint.ticks < MaxTicks
  /\ sprint' = [sprint EXCEPT !.now = @ + DUPLICATE_WINDOW_MS, !.ticks = @ + 1]
  /\ UNCHANGED protocolVars

\* the 'move' handler: self.executor.submit(self.process_move, e)
SubmitMove ==
  /\ sprint.submitted < MaxMoves
  /\ \E w \in Workers, m \in ControllerMoves :
        /\ sprint.worker[w].pc = "idle"
        /\ sprint' = [sprint EXCEPT !.worker[w] = [pc |-> "is_duplicate", move |-> m],
                                    !.submitted = @ + 1]
  /\ UNCHANGED protocolVars

\* DuplicateFilter.is_duplicate, under the filter's lock
is_duplicate(move) ==
  /\ move = sprint.last_move
  /\ sprint.now - sprint.last_move_time < DUPLICATE_WINDOW_MS

\* process_move up to the return of is_duplicate
ProcessMoveFilter ==
  /\ \E w \in Workers :
        /\ sprint.worker[w].pc = "is_duplicate"
        /\ IF is_duplicate(sprint.worker[w].move)
             THEN sprint' = [sprint EXCEPT !.worker[w] = IdleWorker]
             ELSE sprint' = [sprint EXCEPT !.worker[w].pc = "dispatch",
                                          !.last_move = sprint.worker[w].move,
                                          !.last_move_time = sprint.now]
  /\ UNCHANGED protocolVars

\* process_move: 'if move == "U'" and self.sprint_machine.sprinting'; any
\* other move goes to its gamepad action
ProcessMoveDispatch ==
  /\ \E w \in Workers :
        /\ sprint.worker[w].pc = "dispatch"
        /\ IF sprint.worker[w].move = "U'" /\ sprint.sprinting
             THEN sprint' = [sprint EXCEPT !.worker[w].pc = "handle_roll"]
             ELSE sprint' = [sprint EXCEPT !.worker[w] = IdleWorker]
  /\ UNCHANGED protocolVars

\* handle_roll: 'if not self.sprinting or self.rolling: return', read
\* without the lock
HandleRollCheck ==
  /\ \E w \in Workers :
        /\ sprint.worker[w].pc = "handle_roll"
        /\ IF ~sprint.sprinting \/ sprint.rolling
             THEN sprint' = [sprint EXCEPT !.worker[w] = IdleWorker]
             ELSE sprint' = [sprint EXCEPT !.worker[w].pc = "start_thread"]
  /\ UNCHANGED protocolVars

\* handle_roll: threading.Thread(target=_roll, daemon=True).start()
HandleRollStart ==
  /\ \E w \in Workers :
        /\ sprint.worker[w].pc = "start_thread"
        /\ sprint' = [sprint EXCEPT !.worker[w] = IdleWorker,
                                    !.rolls = Append(@, "started")]
  /\ UNCHANGED protocolVars

\* _roll: 'with self.lock: self.rolling = True'
RollBegin ==
  /\ \E i \in DOMAIN sprint.rolls :
        /\ sprint.rolls[i] = "started"
        /\ sprint' = [sprint EXCEPT !.rolls[i] = "sequence", !.rolling = TRUE]
  /\ UNCHANGED protocolVars

\* _roll: B is released, pressed for 0.1 s and released again
RollSequence ==
  /\ \E i \in DOMAIN sprint.rolls :
        /\ sprint.rolls[i] = "sequence"
        /\ sprint' = [sprint EXCEPT !.rolls[i] = "finish", !.b_held = FALSE]
  /\ UNCHANGED protocolVars

\* _roll: 'with self.lock: if self.sprinting: hold B; self.rolling = False'
RollFinish ==
  /\ \E i \in DOMAIN sprint.rolls :
        /\ sprint.rolls[i] = "finish"
        /\ sprint' = [sprint EXCEPT !.rolls[i] = "done", !.rolling = FALSE,
                                    !.b_held = (@ \/ sprint.sprinting)]
  /\ UNCHANGED protocolVars

\* SprintStateMachine.update_orientation with start_sprint and stop_sprint,
\* under the lock
update_orientation(pitch) ==
  LET should_sprint ==
        IF ~sprint.sprinting
          THEN pitch > forward_tilt_threshold
          ELSE pitch > forward_tilt_threshold - forward_tilt_hysteresis
  IN  IF should_sprint /\ ~sprint.sprinting /\ ~sprint.rolling
        THEN [sprint EXCEPT !.sprinting = TRUE, !.b_held = TRUE]
        ELSE IF ~should_sprint /\ sprint.sprinting /\ ~sprint.rolling
               THEN [sprint EXCEPT !.sprinting = FALSE, !.b_held = FALSE]
               ELSE sprint

\* process_orientation: self.sprint_machine.update_orientation(joy_y)
UpdateOrientation ==
  /\ \E pitch \in Pitches :
        /\ update_orientation(pitch) # sprint
        /\ sprint' = update_orientation(pitch)
  /\ UNCHANGED protocolVars

NextController ==
  \/ Tick \/ SubmitMove \/ ProcessMoveFilter \/ ProcessMoveDispatch
  \/ HandleRollCheck \/ HandleRollStart
  \/ RollBegin \/ RollSequence \/ RollFinish \/ UpdateOrientation

SpecController == Init /\ [][NextController]_vars

(***************************************************************************)
(* The clock-synchronizer specification: pairs of device and host time are *)
(* recorded, the history is fitted, device times are converted.            *)
(***************************************************************************)
\* device times in ms
CubeTimes == {0, 10, 30}

\* _update_timestamp_sync(cube_time, now())
UpdateTimestampSync(cube_time, dt) ==
  /\ Len(gyro_timestamp_history) < MaxSyncPoints
  /\ clock' = clock + dt
  /\ gyro_timestamp_history' = update_timestamp_sync(cube_time, clock + dt)
  /\ sync' = [sync EXCEPT !.op = "update"]
  /\ UNCHANGED <<encrypter, last_serial, last_move_timestamp, cube_timestamp,
                 gyro_buffer, last_gyro_emit, call, steps, facelets_seen, bitrd, cry, sent, conn, sprint>>

\* cube_timestamp_linear_fit(self.gyro_timestamp_history)
LinearFit ==
  /\ sync' = [sync EXCEPT !.op = "fit",
                          !.fit = cube_timestamp_linear_fit(gyro_timestamp_history)]
  /\ UNCHANGED <<decoderVars, clock, call, steps, facelets_seen, bitrd, cry, sent, conn, sprint>>

\* _get_synchronized_timestamp(d)
GetSynchronizedTimestamp(d) ==
  /\ sync' = [sync EXCEPT !.op = "get", !.d = d,
                          !.result = get_synchronized_timestamp(d, clock)]
  /\ UNCHANGED <<decoderVars, clock, call, steps, facelets_seen, bitrd, cry, sent, conn, sprint>>

NextSync ==
  \/ \E cube_time \in CubeTimes, dt \in ClockSteps : UpdateTimestampSync(cube_time, dt)
  \/ LinearFit
  \/ \E d \in CubeTimes : GetSynchronizedTimestamp(d)

SpecSync == Init /\ [][NextSync]_vars

(***************************************************************************)
(* The orientation specification: a longer run of Orientation frames only, *)
(* long enough for gyro_buffer to overflow.                                *)
(***************************************************************************)
OrientationArrivals == {OnWire(f) : f \in OrientationFrames} \X ClockSteps

DecodeOrientation ==
  \E a \in OrientationArrivals : DecodeEventWithin(a[1], a[2], MaxGyroSteps)

NextGyro == DecodeOrientation

SpecGyro == Init /\ [][NextGyro]_vars

(***************************************************************************)
(* The smoothing specification: short runs of Orientation frames, each     *)
(* past the rate limit, over more quaternions: unit ones, ones of norm     *)
(* below and above 1, a negated one and the zero one.                      *)
(***************************************************************************)
MaxSmoothSteps == 3

SmoothSpacing == 20

SmoothFrames ==
  { OrientationFrame(32767, 0, 0, 0),        \* w = 1
    OrientationFrame(65535, 0, 0, 0),        \* w = -1
    OrientationFrame(16384, 49152, 0, 1),    \* norm^2 about 0.5
    OrientationFrame(32767, 32767, 0, 0),    \* norm^2 = 2
    OrientationFrame(32758, 0, 0, 0),        \* norm^2 about 0.99945
    OrientationFrame(0, 0, 0, 0) }           \* zero

DecodeSample ==
  \E f \in SmoothFrames : DecodeEventWithin(OnWire(f), SmoothSpacing, MaxSmoothSteps)

NextSmooth == DecodeSample

SpecSmooth == Init /\ [][NextSmooth]_vars

(***************************************************************************)
(* The bit-reader specification: one read of a buffer at an offset.        *)
(***************************************************************************)
BitBuffers ==
  { <<255, 0, 170, 85, 129>>, <<18, 52, 86, 120, 154>>, <<255>>, <<165, 195>> }

InitBits ==
  /\ encrypter = NoEncrypter
  /\ last_serial = -1
  /\ last_move_timestamp = 0
  /\ cube_timestamp = 0
  /\ gyro_buffer = <<>>
  /\ last_gyro_emit = 0
  /\ gyro_timestamp_history = <<>>
  /\ clock = StartClock
  /\ call = NoCall
  /\ steps = 0
  /\ facelets_seen = FALSE
  /\ cry = IdleCry
  /\ sent = NoCommand
  /\ sync = NoSync
  /\ conn = FirstConnection
  /\ sprint = NoSprint
  /\ bitrd \in [buf : BitBuffers, off : 0..MaxBitOffset, len : 1..32,
               done : {FALSE}, res : {0}]

\* ProtocolMessageView(buf).get_bit_word(off, len)
ReadBits ==
  /\ ~bitrd.done
  /\ bitrd' = [bitrd EXCEPT !.done = TRUE,
                            !.res = get_bit_word(MessageBits(bitrd.buf), bitrd.off, bitrd.len)]
  /\ UNCHANGED <<decoderVars, clock, call, steps, facelets_seen, cry, sent, sync, conn, sprint>>

NextBits == ReadBits

SpecBits == InitBits /\ [][NextBits]_vars

(***************************************************************************)
(* The crypto specification: an encrypter is constructed, a frame is       *)
(* encrypted, and the result decrypted.                                    *)
(***************************************************************************)
\* the fake salt of test_gen2_implementation.py
TestSalt == <<18, 52, 86, 120, 154, 188>>
\* the byte string cut or zero-extended to n bytes
Resize(b, n) == AsTuple([i \in 1..n |-> IF i <= Len(b) THEN b[i] ELSE 0], n)
\* lengths a caller may pass for a value that should have n bytes
ArgLengths(n) == {n - 1, n, n + 1}
\* constructor arguments: the two key sets and two salts, at every
\* combination of right and wrong lengths
ConstructorArgs ==
  { [key |-> Resize(GAN_ENCRYPTION_KEYS[k].key, kl),
     iv |-> Resize(GAN_ENCRYPTION_KEYS[k].iv, il),
     salt |-> Resize(salt, sl)] :
      k \in {1, 2}, salt \in {TestSalt, DeviceSalt},
      kl \in ArgLengths(16), il \in ArgLengths(16), sl \in ArgLengths(6) }

\* byte ramps: byte i is (stride * i + first) mod 256
Ramp(n, stride, first) == AsTuple([i \in 1..n |-> (stride * (i - 1) + first) % 256], n)
CryptoFrames ==
  { Ramp(n, stride, first) : n \in {12, 16, 20}, stride \in 0..MaxStride,
                             first \in {0, 4, 77, 255} }

InitCrypto ==
  /\ encrypter = NoEncrypter
  /\ last_serial = -1
  /\ last_move_timestamp = 0
  /\ cube_timestamp = 0
  /\ gyro_buffer = <<>>
  /\ last_gyro_emit = 0
  /\ gyro_timestamp_history = <<>>
  /\ clock = StartClock
  /\ call = NoCall
  /\ steps = 0
  /\ facelets_seen = FALSE
  /\ bitrd = IdleBits
  /\ sent = NoCommand
  /\ sync = NoSync
  /\ conn = FirstConnection
  /\ sprint = NoSprint
  /\ cry \in [args : ConstructorArgs, enc : {NoEncrypter}, plain : CryptoFrames,
             stage : {"new"}, cipher : {<<>>}, back : {<<>>}, raised : {FALSE}]

\* GanGen2CubeEncrypter(key, iv, salt)
Construct ==
  /\ cry.stage = "new"
  /\ \E r \in {GanGen2CubeEncrypter(cry.args.key, cry.args.iv, cry.args.salt)} :
       cry' = [cry EXCEPT !.stage = IF r.raised THEN "rejected" ELSE "plain",
                          !.enc = IF r.raised THEN NoEncrypter
                                  ELSE [present |-> TRUE] @@ r,
                          !.raised = r.raised]
  /\ UNCHANGED <<decoderVars, clock, call, steps, facelets_seen, bitrd, sent, sync, conn, sprint>>

\* encrypter.encrypt(plain)
Encrypt ==
  /\ cry.stage = "plain"
  /\ \E r \in {encrypt(cry.enc, cry.plain)} :
       cry' = [cry EXCEPT !.stage = IF r.raised THEN "failed" ELSE "encrypted",
                          !.cipher = r.out, !.raised = r.raised]
  /\ UNCHANGED <<decoderVars, clock, call, steps, facelets_seen, bitrd, sent, sync, conn, sprint>>

\* encrypter.decrypt(cipher)
Decrypt ==
  /\ cry.stage = "encrypted"
  /\ \E r \in {decrypt(cry.enc, cry.cipher)} :
       cry' = [cry EXCEPT !.stage = IF r.raised THEN "failed" ELSE "decrypted",
                          !.back = r.out, !.raised = r.raised]
  /\ UNCHANGED <<decoderVars, clock, call, steps, facelets_seen, bitrd, sent, sync, conn, sprint>>

NextCrypto == Construct \/ Encrypt \/ Decrypt

SpecCrypto == InitCrypto /\ [][NextCrypto]_vars

(***************************************************************************)
(* Properties.                                                             *)
(***************************************************************************)
\* bit k of the buffer read arithmetically from its bytes, MSB first and
\* byte-major; 0 past the end
RefBit(buf, k) ==
  IF k < 8 * Len(buf) THEN (buf[(k \div 8) + 1] \div Pow2(7 - (k % 8))) % 2 ELSE 0

\* the unsigned number whose binary digits are bits off..off+len-1
RECURSIVE RefBits(_, _, _)
RefBits(buf, off, len) ==
  IF len = 0 THEN 0 ELSE 2 * RefBits(buf, off, len - 1) + RefBit(buf, off + len - 1)

\* the same, a 32-bit word as its two halves
RefWord(buf, off, len) ==
  IF len = 32 THEN <<RefBits(buf, off, 16), RefBits(buf, off + 16, 16)>>
  ELSE RefBits(buf, off, len)

\* the last decode_event call: its frame's tag and serial, read from the bytes
Called == call.ret # "none" /\ call.plain # <<>>
CallTag == call.plain[1] \div 16
CallSerial == (call.plain[1] % 16) * 16 + (call.plain[2] \div 16)
MoveAfterBaseline == Called /\ CallTag = 2 /\ call.pre.last_serial # -1
\* how far the frame's serial is ahead of the baseline, modulo 256
CallStep == (CallSerial - call.pre.last_serial) % 256

FaceletsEvents == {k \in 1..Len(call.events) : call.events[k].type = "FACELETS"}
IsBijection(s, n) == Len(s) = n /\ {s[i] : i \in 1..n} = 0..(n - 1)
Distinct(s) == \A i, j \in 1..Len(s) : i # j => s[i] # s[j]

\* C1: for a fixed encrypter and a frame of 16 or 20 bytes, encrypt succeeds
\* and decrypt(encrypt(frame)) is the frame.
C1_RoundTrip ==
  Len(cry.plain) \in {16, 20} =>
    /\ cry.stage # "failed"
    /\ cry.stage = "decrypted" => cry.back = cry.plain

C1_Witness ==
  /\ cry.stage = "decrypted"
  /\ Len(cry.plain) = 20
  /\ cry.back = cry.plain
  /\ \A i \in 1..20 : cry.cipher[i] # cry.plain[i]

\* C2: with the baseline at L and a Move frame of serial S, d = (S - L) mod
\* 256 in 1..7, the call returns exactly d Move events with serials L+1, ...,
\* S modulo 256, oldest first.
C2_MovesInSerialOrder ==
  (MoveAfterBaseline /\ CallStep \in 1..7) =>
    /\ call.ret = "list"
    /\ Len(call.events) = CallStep
    /\ \A k \in 1..CallStep :
         /\ call.events[k].type = "MOVE"
         /\ call.events[k].serial = (call.pre.last_serial + k) % 256

\* the serials 251, ..., 255, 0, 1 across the wrap
C2_Witness ==
  /\ MoveAfterBaseline
  /\ call.pre.last_serial = 250
  /\ CallSerial = 1
  /\ Len(call.events) = 7
  /\ call.events[6].serial = 0

\* C3: until a frame tagged 0x3 or 0x4 has been decoded, last_serial is -1
\* and no call returns a Move event.
C3_NoMoveBeforeFacelets ==
  ~facelets_seen =>
    /\ last_serial = -1
    /\ \A k \in 1..Len(call.events) : call.events[k].type # "MOVE"

C3_Witness ==
  /\ Called
  /\ CallTag = 2
  /\ ~facelets_seen
  /\ steps >= 2
  /\ call.ret = "None"

\* C4: decode_event returns normally for every plaintext frame of 16 or 20
\* bytes, in every decoder state.
C4_NeverRaises ==
  (Called /\ Len(call.plain) \in {16, 20}) => call.ret # "raised"

\* C5: every Facelets event carries a CP that is a bijection on 0..7 and an
\* EP that is a bijection on 0..11, whatever the frame.
C5_AlwaysPermutations ==
  \A k \in FaceletsEvents :
    /\ IsBijection(call.events[k].state.CP, 8)
    /\ IsBijection(call.events[k].state.EP, 12)

\* C5 as amended: every Facelets event carries a CP that is a bijection on
\* 0..7 when the seven transmitted CP values are pairwise distinct, and an EP
\* that is a bijection on 0..11 when the eleven transmitted EP values are
\* pairwise distinct.
C5_PermutationsWhenDistinct ==
  \A k \in FaceletsEvents :
    /\ Distinct([i \in 1..7 |-> RefBits(call.plain, 12 + 3 * (i - 1), 3)])
         => IsBijection(call.events[k].state.CP, 8)
    /\ Distinct([i \in 1..11 |-> RefBits(call.plain, 47 + 4 * (i - 1), 4)])
         => IsBijection(call.events[k].state.EP, 12)

\* a state that is not the solved one: the derived pieces are 6 and 10
C5_Witness ==
  /\ FaceletsEvents # {}
  /\ Distinct([i \in 1..7 |-> RefBits(call.plain, 12 + 3 * (i - 1), 3)])
  /\ Distinct([i \in 1..11 |-> RefBits(call.plain, 47 + 4 * (i - 1), 4)])
  /\ call.events[1].state.CP = <<7, 1, 2, 3, 4, 5, 0, 6>>
  /\ call.events[1].state.EP[12] = 10

\* C6: the CO of every Facelets event has 8 entries summing to 0 mod 3 and
\* its EO has 12 entries summing to 0 mod 2; the first 7 and 11 are the
\* transmitted fields.
C6_OrientationSums ==
  \A k \in FaceletsEvents :
    LET st == call.events[k].state
    IN /\ Len(st.CO) = 8
       /\ SumSeq(st.CO) % 3 = 0
       /\ \A i \in 1..7 : st.CO[i] = RefBits(call.plain, 33 + 2 * (i - 1), 2)
       /\ Len(st.EO) = 12
       /\ SumSeq(st.EO) % 2 = 0
       /\ \A i \in 1..11 : st.EO[i] = RefBits(call.plain, 91 + (i - 1), 1)

\* derived orientations that are not zero
C6_Witness ==
  /\ FaceletsEvents # {}
  /\ call.events[1].state.CO[8] = 2
  /\ call.events[1].state.EO[12] = 1

\* C7: a read of 1..32 bits that lies within the buffer gives the unsigned
\* number whose digits are bits offset..offset+length-1, MSB first.
C7_ReadMatchesBitStream ==
  (bitrd.done /\ bitrd.off + bitrd.len <= 8 * Len(bitrd.buf)) =>
    bitrd.res = RefWord(bitrd.buf, bitrd.off, bitrd.len)

C7_Witness ==
  /\ bitrd.done
  /\ bitrd.buf = <<255, 0, 170, 85, 129>>
  /\ bitrd.off = 3
  /\ bitrd.len = 32
  /\ bitrd.res = <<63493, 21164>>

\* C8: a read that extends past the end of the buffer gives the value of the
\* same read on the buffer extended with zero bytes.
C8_MissingBitsReadAsZero ==
  (bitrd.done /\ bitrd.off + bitrd.len > 8 * Len(bitrd.buf)) =>
    bitrd.res = RefWord(bitrd.buf, bitrd.off, bitrd.len)

\* C9: for a Move frame after the baseline, the serial advances by the
\* number of Move events returned, modulo 256.
C9_SerialAdvanceIsMoveCount ==
  MoveAfterBaseline =>
    (last_serial - call.pre.last_serial) % 256 = Len(call.events)

\* C9 as amended: the number of Move events returned is the advance of the
\* serial modulo 256 when that is at most 7, and 7 when it is larger.
C9_MoveCountIsCappedAdvance ==
  MoveAfterBaseline =>
    Len(call.events) = Min((last_serial - call.pre.last_serial) % 256, 7)

C9_Witness ==
  /\ MoveAfterBaseline
  /\ call.pre.last_serial = 250
  /\ last_serial = 255
  /\ Len(call.events) = 5

\* C10: a Move frame whose serial S is more than 7 ahead of the baseline
\* gives exactly 7 Move events, serials S-6, ..., S modulo 256, taken from
\* slots 6 down to 0; last_serial becomes S and nothing is raised.
C10_GapKeepsLastSeven ==
  (MoveAfterBaseline /\ CallStep > 7) =>
    /\ call.ret = "list"
    /\ Len(call.events) = 7
    /\ last_serial = CallSerial
    /\ \A k \in 1..7 :
         /\ call.events[k].type = "MOVE"
         /\ call.events[k].serial = (CallSerial - (7 - k)) % 256
         /\ call.events[k].face = RefBits(call.plain, 12 + 5 * (7 - k), 4)
         /\ call.events[k].direction = RefBits(call.plain, 16 + 5 * (7 - k), 1)

C10_Witness ==
  /\ MoveAfterBaseline
  /\ call.pre.last_serial = 250
  /\ CallSerial = 4
  /\ CallStep = 10
  /\ Len(call.events) = 7
  /\ call.events[1].serial = 254

\* the frame with its 4-bit tag replaced
WithTag(frame, tag) == [frame EXCEPT ![1] = 16 * tag + (@ % 16)]
EventKinds == {call.events[k].type : k \in 1..Len(call.events)}
\* the kind of event each tag selects, and how many one call may give
TagKind(tag) ==
  CASE tag = 1 -> [kinds |-> {"ORIENTATION"}, most |-> 1]
    [] tag = 2 -> [kinds |-> {"MOVE"}, most |-> 7]
    [] tag \in {3, 4} -> [kinds |-> {"FACELETS"}, most |-> 1]
    [] tag = 5 -> [kinds |-> {"HARDWARE"}, most |-> 1]
    [] tag = 9 -> [kinds |-> {"BATTERY"}, most |-> 1]
    [] OTHER -> [kinds |-> {}, most |-> 0]

\* C11: a call emits only events of the kind its frame's tag selects (1
\* Orientation, 2 Move, 3 and 4 Facelets, 5 Hardware, 9 Battery, nothing for
\* any other tag), at most 7 Moves or one event of another kind, and in every
\* decoder state a Facelets frame is handled the same under tag 3 and tag 4.
C11_EventsMatchTag ==
  /\ Called =>
       /\ EventKinds \subseteq TagKind(CallTag).kinds
       /\ Len(call.events) <= TagKind(CallTag).most
  /\ \A f \in FaceletsFrames :
       Dispatch(MessageBits(WithTag(f, 3)), clock) = Dispatch(MessageBits(WithTag(f, 4)), clock)

C11_Witness ==
  /\ Called
  /\ CallTag = 3
  /\ Len(call.events) = 1
  /\ call.events[1].type = "FACELETS"
  /\ call.pre.last_serial = -1
  /\ last_serial = CallSerial

\* the last call's frame is one that produces no event: unknown tag or
\* Disconnect, Move before the baseline, Move with serial difference zero,
\* Orientation inside the rate limit
NoEventFrame ==
  /\ Called
  /\ \/ CallTag \notin {1, 2, 3, 4, 5, 9}
     \/ CallTag = 2 /\ call.pre.last_serial = -1
     \/ MoveAfterBaseline /\ CallStep = 0
     \/ CallTag = 1 /\ call.timestamp - call.pre.last_gyro_emit < GYRO_RATE_LIMIT_MS

\* C12 as stated: a frame that produces no event makes decode_event return
\* an empty list, not an error and not None.
C12_NoEventReturnsEmptyList ==
  NoEventFrame => call.ret = "list" /\ call.events = <<>>

\* C12 as the code has it: a frame that produces no event makes decode_event
\* return None, without raising, and a list it returns is never empty.
C12_NoEventReturnsNone ==
  /\ NoEventFrame => call.ret = "None" /\ call.events = <<>>
  /\ call.ret = "list" => call.events # <<>>

C12_Witness ==
  /\ NoEventFrame
  /\ CallTag = 1
  /\ call.pre.last_gyro_emit > 0
  /\ call.ret = "None"
  /\ gyro_buffer = call.pre.gyro_buffer

\* the template of a command: its opcode byte, or the 12 bytes of the reset
\* payload, zero-filled to 20 bytes
CommandTemplate(command) ==
  ByteFrame(CASE command = "REQUEST_FACELETS" -> <<4>>
              [] command = "REQUEST_HARDWARE" -> <<5>>
              [] command = "REQUEST_BATTERY" -> <<9>>
              [] command = "REQUEST_RESET" ->
                   <<10, 5, 57, 119, 0, 0, 1, 35, 69, 103, 137, 171>>,
            20)

\* C13: for each of the four commands encode_command returns exactly 20
\* bytes which, decrypted with the same encrypter, are the command's template.
C13_CommandDecryptsToTemplate ==
  sent.type \in CommandType =>
    /\ ~sent.none
    /\ ~sent.raised
    /\ Len(sent.data) = 20
    /\ protocol_decrypt(sent.data) = [raised |-> FALSE, out |-> CommandTemplate(sent.type)]

C13_Witness ==
  /\ sent.type = "REQUEST_RESET"
  /\ encrypter.present
  /\ Len(sent.data) = 20
  /\ sent.data # CommandTemplate("REQUEST_RESET")
  /\ protocol_decrypt(sent.data).out[12] = 171

\* C14: encrypt and decrypt raise for every input under 16 bytes, and a
\* decode_event call on such a frame raises with every decoder field
\* (last_serial, cube_timestamp, last_move_timestamp, gyro_buffer,
\* last_gyro_emit, gyro_timestamp_history) as it was before the call.
C14_ShortFrameRaisesFirst ==
  /\ \A f \in ShortWires \cup {Zeros(n) : n \in ShortLengths} :
       encrypt(encrypter, f).raised /\ decrypt(encrypter, f).raised
  /\ (call.ret # "none" /\ Len(call.wire) < 16) =>
       /\ call.ret = "raised"
       /\ call.events = <<>>
       /\ Fields = call.pre

C14_Witness ==
  /\ call.ret = "raised"
  /\ Len(call.wire) = 15
  /\ encrypter.present
  /\ last_serial # -1
  /\ gyro_buffer # <<>>
  /\ Fields = call.pre

\* C15: constructing an encrypter raises exactly when the key is not 16
\* bytes, the IV is not 16 bytes, or the salt is not 6 bytes.
C15_ConstructorRejectsWrongLengths ==
  cry.stage \notin {"idle", "new"} =>
    ((cry.stage = "rejected")
       <=> (Len(cry.args.key) # 16 \/ Len(cry.args.iv) # 16 \/ Len(cry.args.salt) # 6))

C15_Witness ==
  /\ cry.stage = "rejected"
  /\ Len(cry.args.key) = 16
  /\ Len(cry.args.iv) = 16
  /\ Len(cry.args.salt) = 7

\* the salted value: (base[i] + salt[i]) mod 255 in the first 6 bytes, base[i]
\* in the other 10
Salted(base, salt) ==
  [i \in 1..16 |-> IF i <= 6 THEN (base[i] + salt[i]) % 255 ELSE base[i]]

\* C16: a constructed encrypter's key and IV are the salted base values, the
\* first 6 bytes in 0..254, before and after every encrypt and decrypt.
C16_DerivedKeyAndIv ==
  cry.stage \in {"plain", "encrypted", "decrypted", "failed"} =>
    /\ cry.enc.key = Salted(cry.args.key, cry.args.salt)
    /\ cry.enc.iv = Salted(cry.args.iv, cry.args.salt)
    /\ \A i \in 1..6 : cry.enc.key[i] \in 0..254 /\ cry.enc.iv[i] \in 0..254

C16_Witness ==
  /\ cry.stage = "decrypted"
  /\ cry.args.salt = TestSalt
  /\ cry.args.key[6] = 145
  /\ cry.enc.key[6] = 78
  /\ cry.enc.key[7] = cry.args.key[7]

\* the last call returned an Orientation event
OrientationEmitted == \E k \in 1..Len(call.events) : call.events[k].type = "ORIENTATION"

\* C17: an Orientation frame arriving less than 16 ms after the latest
\* Orientation event gives no event and leaves gyro_buffer as it was, and an
\* Orientation event comes at least 16 ms after the one before it.
C17_OrientationRateLimit ==
  (Called /\ call.emitted_before # NoneVal) =>
    /\ (CallTag = 1 /\ call.timestamp - call.emitted_before < 16) =>
         /\ call.events = <<>>
         /\ call.ret = "None"
         /\ gyro_buffer = call.pre.gyro_buffer
    /\ OrientationEmitted => call.timestamp - call.emitted_before >= 16

C17_Witness ==
  /\ Called
  /\ CallTag = 1
  /\ call.emitted_before # NoneVal
  /\ call.timestamp - call.emitted_before = 5
  /\ call.events = <<>>
  /\ Len(gyro_buffer) = 2

\* a 16-bit sign-magnitude code as the signed numerator it stands for
SignMagnitude(code) == IF code >= 32768 THEN -(code - 32768) ELSE code
\* the sample an Orientation frame carries, read from its bytes
FrameSample(a) ==
  [quaternion |-> [w |-> SignMagnitude(RefBits(a.plain, 4, 16)),
                   x |-> SignMagnitude(RefBits(a.plain, 20, 16)),
                   y |-> SignMagnitude(RefBits(a.plain, 36, 16)),
                   z |-> SignMagnitude(RefBits(a.plain, 52, 16))],
   timestamp |-> a.timestamp]
\* the last n elements of a sequence, all of it when it is shorter
LastN(seq, n) == SubSeq(seq, Len(seq) - Min(n, Len(seq)) + 1, Len(seq))

\* C18: gyro_buffer holds at most 5 samples, the most recently accepted ones
\* in arrival order, and gyro_timestamp_history holds at most 20 pairs.
C18_BuffersBounded ==
  /\ Len(gyro_buffer) <= 5
  /\ gyro_buffer = [k \in 1..Min(5, Len(call.accepted)) |->
                      FrameSample(LastN(call.accepted, 5)[k])]
  /\ Len(gyro_timestamp_history) <= 20

C18_Witness ==
  /\ Len(call.accepted) = 7
  /\ Len(gyro_buffer) = 5
  /\ gyro_buffer[1].timestamp = call.accepted[3].timestamp
  /\ gyro_buffer[5].timestamp = call.timestamp

\* C19: a Battery frame gives exactly one Battery event whose percent is the
\* frame's second byte capped at 100, and leaves every decoder field as it
\* was.
C19_BatteryPercentCapped ==
  (Called /\ CallTag = 9) =>
    /\ call.ret = "list"
    /\ Len(call.events) = 1
    /\ call.events[1].type = "BATTERY"
    /\ call.events[1].percent = (IF call.plain[2] > 100 THEN 100 ELSE call.plain[2])
    /\ call.events[1].percent \in 0..100
    /\ Fields = call.pre

C19_Witness ==
  /\ Called
  /\ CallTag = 9
  /\ call.plain[2] = 200
  /\ call.events[1].percent = 100
  /\ last_serial # -1

\* the 8 name bytes of a Hardware frame, bits [40 + 8i, 8)
NameBytes == SubSeq(call.plain, 6, 13)
RECURSIVE DropTrailingNul(_)
DropTrailingNul(b) ==
  IF b # <<>> /\ b[Len(b)] = 0 THEN DropTrailingNul(SubSeq(b, 1, Len(b) - 1)) ELSE b
IsNotNul(c) == c # 0
RECURSIVE Trim(_)
Trim(b) ==
  IF b = <<>> THEN b
  ELSE IF Head(b) \in PyWhitespace THEN Trim(Tail(b))
  ELSE IF b[Len(b)] \in PyWhitespace THEN Trim(SubSeq(b, 1, Len(b) - 1))
  ELSE b
HardwareCall == Called /\ CallTag = 5

\* C20 as stated: the model string is the 8 name bytes with only the
\* trailing NUL bytes removed, the firmware string is built from bytes 3, 4.
C20_OnlyTrailingNulsRemoved ==
  HardwareCall =>
    /\ Len(call.events) = 1
    /\ call.events[1].model = DropTrailingNul(NameBytes)
    /\ call.events[1].firmware = <<call.plain[4], call.plain[5]>>

\* C20 as the code has it: the model string is the non-NUL name bytes in
\* order with leading and trailing whitespace removed, the firmware string
\* is built from bytes 3 and 4 (bits [24,8) and [32,8)).
C20_ModelDropsNulsAndWhitespace ==
  HardwareCall =>
    /\ call.ret = "list"
    /\ Len(call.events) = 1
    /\ call.events[1].type = "HARDWARE"
    /\ call.events[1].model = Trim(SelectSeq(NameBytes, IsNotNul))
    /\ call.events[1].firmware = <<call.plain[4], call.plain[5]>>

C20_Witness ==
  /\ HardwareCall
  /\ NameBytes = <<32, 71, 0, 65, 78, 32, 0, 0>>
  /\ call.events[1].model = <<71, 65, 78>>
  /\ call.events[1].firmware = <<3, 4>>

\* C21 as stated: with fewer than 2 points in the history the fit is slope
\* 1, intercept 0, and the synchronized time returned for device time d is d.
C21_IdentityBelowTwoPoints ==
  Len(gyro_timestamp_history) < 2 =>
    /\ sync.op = "fit" => sync.fit.slope.num = sync.fit.slope.den /\ sync.fit.intercept.num = 0
    /\ sync.op = "get" => sync.result = sync.d

\* C21 as the code has it: with fewer than 2 points the fit is slope 1,
\* intercept 0, but the synchronized time returned for any device time is
\* the host time now(), without the fit.
C21_HostTimeBelowTwoPoints ==
  Len(gyro_timestamp_history) < 2 =>
    /\ sync.op = "fit" => sync.fit.slope.num = sync.fit.slope.den /\ sync.fit.intercept.num = 0
    /\ sync.op = "get" => sync.result = clock

C21_Witness ==
  /\ Len(gyro_timestamp_history) = 1
  /\ sync.op = "get"
  /\ sync.d = 30
  /\ sync.result = clock
  /\ clock > StartClock

MoveEvents == {k \in 1..Len(call.events) : call.events[k].type = "MOVE"}

\* C22 as stated: every Move event has face in 0..5, direction in {0, 1} and
\* serial in 0..255, whatever the frame holds.
C22_MoveFieldsInRange ==
  \A k \in MoveEvents :
    /\ call.events[k].face \in 0..5
    /\ call.events[k].direction \in {0, 1}
    /\ call.events[k].serial \in 0..255

\* C22 as the code has it: every Move event has face in 0..15 (the 4-bit
\* field as read, with notation "?" when it is above 5), direction in {0, 1}
\* and serial in 0..255.
C22_MoveFaceIsFourBits ==
  \A k \in MoveEvents :
    /\ call.events[k].face \in 0..15
    /\ call.events[k].face > 5 => call.events[k].move = <<"?">>
    /\ call.events[k].face <= 5 => call.events[k].move # <<"?">>
    /\ call.events[k].direction \in {0, 1}
    /\ call.events[k].serial \in 0..255

C22_Witness ==
  /\ Len(call.events) = 7
  /\ call.events[1].type = "MOVE"
  /\ call.events[1].face = 9
  /\ call.events[1].move = <<"?">>
  /\ call.events[7].face = 0

\* the fields of a decoder just constructed
FreshFields ==
  [last_serial |-> -1, last_move_timestamp |-> 0, cube_timestamp |-> 0,
   gyro_buffer |-> <<>>, last_gyro_emit |-> 0, gyro_timestamp_history |-> <<>>]

\* C23: after disconnect() and a successful connect() the decoder fields are
\* those of a new decoder until a frame is decoded, and no Move event is
\* emitted on the new connection before a Facelets frame has arrived on it.
C23_ReconnectStartsFresh ==
  (conn.count >= 2 /\ conn.connected) =>
    /\ call = NoCall => Fields = FreshFields
    /\ ~facelets_seen =>
         /\ last_serial = -1
         /\ \A k \in 1..Len(call.events) : call.events[k].type # "MOVE"

C23_Witness ==
  /\ conn.count = 2
  /\ conn.connected
  /\ conn.stale_serial = 250
  /\ Called
  /\ CallTag = 2
  /\ call.events = <<>>
  /\ last_serial = -1

(***************************************************************************)
(* Smoothing of identical samples.                                         *)
(***************************************************************************)
Sign(n) == IF n < 0 THEN -1 ELSE IF n > 0 THEN 1 ELSE 0

\* two quaternion values [v, s] are the same four numbers
SameQuaternion(a, b) ==
  \A i \in 1..4 :
    /\ Sign(a.v[i]) = Sign(b.v[i])
    /\ BigMul(BigProduct(a.v[i], a.v[i]), b.s) = BigMul(BigProduct(b.v[i], b.v[i]), a.s)

\* the vector an accepted Orientation frame carries, read from its bytes
SampleVector(a) == QuatVector(FrameSample(a).quaternion)
\* that vector over 0x7FFF, and over its own length
AsDecoded(v) == [v |-> v, s |-> BigProduct(32767, 32767)]
ToUnitNorm(v) == [v |-> v, s |-> QuatDot(v, v).size]

SmoothingWindow == LastN(call.accepted, 3)

\* an Orientation event was just emitted from a window of identical samples
IdenticalWindow ==
  /\ Called
  /\ OrientationEmitted
  /\ Len(call.accepted) >= 2
  /\ \A k \in 1..Len(SmoothingWindow) :
       SampleVector(SmoothingWindow[k]) = SampleVector(SmoothingWindow[1])

NearUnitNorm(q) ==
  LET sum == QuatDot(q.v, q.v).size
      gap == IF BigCmp(sum, q.s) >= 0 THEN BigSub(sum, q.s) ELSE BigSub(q.s, sum)
  IN BigCmp(BigMul(gap, BigFromInt(1000)), q.s) < 0

\* C25 as stated: an Orientation frame whose four codes are not all of zero
\* magnitude gives a quaternion with |x^2 + y^2 + z^2 + w^2 - 1| < 1e-3, both
\* as decoded from the frame and as emitted in the Orientation event.
C25_QuaternionNearUnitNorm ==
  (Called /\ CallTag = 1 /\ call.ret # "raised"
     /\ SampleVector(call) # <<0, 0, 0, 0>>) =>
    /\ NearUnitNorm(AsDecoded(SampleVector(call)))
    /\ OrientationEmitted => NearUnitNorm(call.events[1].quaternion)


(***************************************************************************)
(* Move slots.                                                             *)
(***************************************************************************)
FaceLetters == <<"U", "R", "F", "D", "L", "B">>
MoveNotation(face, direction) ==
  IF direction = 1 THEN <<FaceLetters[face + 1], "'">> ELSE <<FaceLetters[face + 1]>>

\* the slot the k-th returned Move event is taken from: the events come in
\* the order of slots n-1, ..., 0
SlotOf(k) == Len(call.events) - k
\* the device time before the k-th returned Move event was added
TimeBefore(k) ==
  IF k = 1 THEN call.pre.cube_timestamp ELSE call.events[k - 1].cube_timestamp

\* the k-th returned Move event has the serial, face and direction of its
\* slot, and its nonzero elapsed field, when the frame holds it, is what it
\* adds to the device time
FromSlot(k) ==
  LET i == SlotOf(k)
      elapsed == RefBits(call.plain, 47 + 16 * i, 16)
  IN /\ call.events[k].serial = (CallSerial - i) % 256
     /\ call.events[k].face = RefBits(call.plain, 12 + 5 * i, 4)
     /\ call.events[k].direction = RefBits(call.plain, 16 + 5 * i, 1)
     /\ (elapsed # 0 /\ 47 + 16 * i + 16 <= 8 * Len(call.plain))
          => call.events[k].cube_timestamp - TimeBefore(k) = elapsed

\* C26 as stated: the Move event with serial (S - i) mod 256 has the face,
\* direction and elapsed of slot i, and its notation is "URFDLB"[face] with
\* an apostrophe exactly when direction is 1.
C26_MoveFromSlotWithLetter ==
  MoveAfterBaseline =>
    \A k \in MoveEvents :
      /\ FromSlot(k)
      /\ call.events[k].face \in 0..5
      /\ call.events[k].move = MoveNotation(call.events[k].face, call.events[k].direction)

\* C26: the Move event with serial (S - i) mod 256 has the face, direction
\* and elapsed of slot i; for a face in 0..5 its notation is "URFDLB"[face]
\* with an apostrophe exactly when direction is 1, and for a face in 6..15
\* it is "?".
C26_MoveFromSlot ==
  MoveAfterBaseline =>
    \A k \in MoveEvents :
      /\ FromSlot(k)
      /\ call.events[k].face \in 0..5 =>
           call.events[k].move = MoveNotation(call.events[k].face, call.events[k].direction)
      /\ call.events[k].face \notin 0..5 => call.events[k].move = <<"?">>

C26_Witness ==
  /\ MoveAfterBaseline
  /\ Len(call.events) = 5
  /\ call.events[1].serial = (CallSerial - 4) % 256
  /\ call.events[1].move = <<"L", "'">>
  /\ call.events[1].cube_timestamp - call.pre.cube_timestamp = 5
  /\ call.events[3].move = <<"F">>
  /\ call.events[3].cube_timestamp - call.events[2].cube_timestamp = 300


(***************************************************************************)
(* The derived last corner and last edge.                                  *)
(***************************************************************************)
\* the transmitted permutation fields of the last frame, read from its bytes
SentCP == [i \in 1..7 |-> RefBits(call.plain, 12 + 3 * (i - 1), 3)]
SentEP == [i \in 1..11 |-> RefBits(call.plain, 47 + 4 * (i - 1), 4)]
Members(s) == {s[i] : i \in 1..Len(s)}

\* C27: when the 7 transmitted CP values are pairwise distinct, CP[7] is the
\* one value of 0..7 not among them; when the 11 transmitted EP values are
\* pairwise distinct members of 0..11, EP[11] is the one value of 0..11 not
\* among them.
C27_DerivedPieceIsTheMissingOne ==
  \A k \in FaceletsEvents :
    LET st == call.events[k].state
    IN /\ Distinct(SentCP) =>
            /\ Len(st.CP) = 8
            /\ (0..7) \ Members(SentCP) = {st.CP[8]}
       /\ (Distinct(SentEP) /\ Members(SentEP) \subseteq 0..11) =>
            /\ Len(st.EP) = 12
            /\ (0..11) \ Members(SentEP) = {st.EP[12]}

C27_Witness ==
  /\ FaceletsEvents # {}
  /\ SentCP = <<0, 1, 2, 3, 4, 5, 6>>
  /\ SentEP = <<0, 1, 2, 3, 4, 5, 6, 7, 8, 9, 10>>
  /\ call.events[1].state.CP[8] = 7
  /\ call.events[1].state.EP[12] = 11


(***************************************************************************)
(* Samples past the rate limit.                                            *)
(***************************************************************************)
\* an Orientation frame was decoded that the rate limiter did not drop
AcceptedSample ==
  /\ Called
  /\ CallTag = 1
  /\ call.ret # "raised"
  /\ call.timestamp - call.pre.last_gyro_emit >= GYRO_RATE_LIMIT_MS
\* it was pushed into gyro_buffer, the oldest sample leaving above 5
SamplePushed ==
  gyro_buffer = LastN(Append(call.pre.gyro_buffer,
                             FrameSample([plain |-> call.plain,
                                          timestamp |-> call.timestamp])), 5)

\* C28 as stated: an Orientation frame that the rate limiter does not drop
\* is pushed into gyro_buffer and gives exactly one Orientation event, the
\* first one on a new decoder included.
C28_AcceptedSampleGivesOneEvent ==
  AcceptedSample =>
    /\ SamplePushed
    /\ Len(call.events) = 1
    /\ call.events[1].type = "ORIENTATION"

\* C28: an Orientation frame that the rate limiter does not drop is pushed
\* into gyro_buffer; it gives exactly one Orientation event when the buffer
\* then holds at least 2 samples, and the first sample of a decoder gives no
\* event and leaves last_gyro_emit as it was.
C28_AcceptedSampleGivesOneEventFromSecond ==
  AcceptedSample =>
    /\ SamplePushed
    /\ Len(gyro_buffer) >= 2 =>
         /\ Len(call.events) = 1
         /\ call.events[1].type = "ORIENTATION"
         /\ last_gyro_emit = call.timestamp
    /\ Len(gyro_buffer) < 2 =>
         /\ call.events = <<>>
         /\ call.ret = "None"
         /\ last_gyro_emit = call.pre.last_gyro_emit

\* the second sample of a decoder: the first one gave no event
C28_Witness ==
  /\ AcceptedSample
  /\ Len(call.pre.gyro_buffer) = 1
  /\ call.pre.last_gyro_emit = 0
  /\ Len(gyro_buffer) = 2
  /\ Len(call.events) = 1
  /\ call.events[1].type = "ORIENTATION"


(***************************************************************************)
(* Device time of the Move events.                                         *)
(***************************************************************************)
\* what the k-th returned Move event added to the device time
AddedBy(k) == call.events[k].cube_timestamp - TimeBefore(k)
\* the elapsed field of its slot, when the frame holds all of it
ElapsedField(k) == RefBits(call.plain, 47 + 16 * SlotOf(k), 16)
HoldsElapsed(k) == 47 + 16 * SlotOf(k) + 16 <= 8 * Len(call.plain)

\* C29 as stated: each Move event's cube_timestamp is the device time with
\* its slot's elapsed field added; when the field is 0 what is added is the
\* host time since the previous frame that gave Move events, and on the
\* first Move frame of a decoder, which has no such frame before it, a host
\* time elapsed since the decoder was constructed at the latest.
C29_ZeroElapsedAddsHostDelta ==
  MoveAfterBaseline =>
    /\ \A k \in MoveEvents :
         HoldsElapsed(k) =>
           /\ ElapsedField(k) # 0 => AddedBy(k) = ElapsedField(k)
           /\ (ElapsedField(k) = 0 /\ call.moved_before # NoneVal)
                => AddedBy(k) = call.timestamp - call.moved_before
           /\ (ElapsedField(k) = 0 /\ call.moved_before = NoneVal)
                => AddedBy(k) <= call.timestamp - StartClock
    /\ MoveEvents # {} => cube_timestamp = call.events[Len(call.events)].cube_timestamp


C31_EncodeIndependentOfDecode ==
  /\ [](sent.type \in CommandType =>
          sent.data = encrypt(encrypter, CommandTemplate(sent.type)).out)
  /\ [][sent' # sent => UNCHANGED decoderVars]_vars

\* a command encoded after two frames have changed the decoder fields
C31_Witness ==
  /\ sent.type = "REQUEST_BATTERY"
  /\ Len(sent.data) = 20
  /\ steps = 2
  /\ last_serial = 250
  /\ Len(gyro_buffer) = 1


(***************************************************************************)
(* The stream of Move serials.                                             *)
(***************************************************************************)
\* the serials base + 1, ..., base + n modulo 256
StreamFrom(base, n) == [k \in 1..n |-> (base + k) % 256]

\* C32: after a baseline at B, while every Move frame is 0..7 steps ahead of
\* last_serial, the Move serials emitted so far are B+1, B+2, ... modulo 256
\* in this order, ending at last_serial, which is the serial of the last
\* Move frame; a Move frame 0 steps ahead gives no event and changes no
\* decoder field.
C32_MoveStreamIsConsecutive ==
  /\ (call.base # NoneVal /\ call.in_step) =>
       /\ call.stream = StreamFrom(call.base, Len(call.stream))
       /\ last_serial = (call.base + Len(call.stream)) % 256
       /\ MoveAfterBaseline => last_serial = CallSerial
  /\ (MoveAfterBaseline /\ CallStep = 0) =>
       /\ call.events = <<>>
       /\ Fields = call.pre

\* two Move frames, 5 and 2 steps ahead, across the wrap of the serial
C32_Witness ==
  /\ call.in_step
  /\ call.base = 250
  /\ MoveAfterBaseline
  /\ call.pre.last_serial = 255
  /\ call.stream = <<251, 252, 253, 254, 255, 0, 1>>
  /\ last_serial = 1


\* the Move serials emitted before the last call
StreamBefore == SubSeq(call.stream, 1, Len(call.stream) - Cardinality(MoveEvents))

\* C33 as stated: a Move frame whose serial is 1..7 behind last_serial gives
\* no Move event and leaves last_serial as it was, so that no serial is
\* emitted twice.
C33_StaleMoveFrameIgnored ==
  (MoveAfterBaseline /\ (call.pre.last_serial - CallSerial) % 256 \in 1..7) =>
    /\ call.events = <<>>
    /\ last_serial = call.pre.last_serial
    /\ \A k \in MoveEvents :
         call.events[k].serial \notin {StreamBefore[j] : j \in 1..Len(StreamBefore)}


(***************************************************************************)
(* Rendering.                                                              *)
(***************************************************************************)
IsSolved(st) ==
  /\ st.CP = <<0, 1, 2, 3, 4, 5, 6, 7>>
  /\ st.CO = <<0, 0, 0, 0, 0, 0, 0, 0>>
  /\ st.EP = <<0, 1, 2, 3, 4, 5, 6, 7, 8, 9, 10, 11>>
  /\ st.EO = <<0, 0, 0, 0, 0, 0, 0, 0, 0, 0, 0, 0>>

\* C34 as stated: the solved state is rendered as 9 times U, then 9 times
\* each of R, F, D, L and B.
C34_SolvedRendersSolved ==
  \A k \in FaceletsEvents :
    IsSolved(call.events[k].state) =>
      \A p \in 0..53 : call.events[k].facelets[p] = FaceLetters[(p \div 9) + 1]


\* the positions the three tables of to_kociemba_facelets write to
TablePositions ==
  {centers[i] : i \in 1..6}
  \cup {corner_positions[i][j] : i \in 1..8, j \in 1..3}
  \cup {edge_positions[i][j] : i \in 1..12, j \in 1..2}

\* how often a letter occurs among the 54 facelets
Occurrences(facelets, letter) == Cardinality({p \in 0..53 : facelets[p] = letter})

\* C35: for a state with CP a bijection on 0..7, EP a bijection on 0..11,
\* CO in 0..2 and EO in 0..1, the rendering has the 54 positions 0..53, each
\* of U, R, F, D, L, B on exactly 9 of them, and no "X".
C35_NineOfEachLetter ==
  /\ FaceletsEvents # {} => TablePositions = 0..53
  /\ \A k \in FaceletsEvents :
       LET st == call.events[k].state
           facelets == call.events[k].facelets
       IN (/\ IsBijection(st.CP, 8)
           /\ IsBijection(st.EP, 12)
           /\ \A i \in 1..8 : st.CO[i] \in 0..2
           /\ \A i \in 1..12 : st.EO[i] \in 0..1) =>
            /\ DOMAIN facelets = 0..53
            /\ \A letter \in {"U", "R", "F", "D", "L", "B"} : Occurrences(facelets, letter) = 9
            /\ \A p \in 0..53 : facelets[p] # "X"

\* a state with the corners rotated by 3 places and twisted
C35_Witness ==
  /\ FaceletsEvents # {}
  /\ call.events[1].state.CP = <<3, 4, 5, 6, 7, 0, 1, 2>>
  /\ call.events[1].state.CO = <<1, 2, 0, 0, 0, 2, 2, 2>>
  /\ call.events[1].state.EP[1] = 5
  /\ Occurrences(call.events[1].facelets, "D") = 9


(***************************************************************************)
(* Which frames change which fields.                                       *)
(***************************************************************************)
MoveFieldsKept ==
  /\ last_serial = call.pre.last_serial
  /\ last_move_timestamp = call.pre.last_move_timestamp
  /\ cube_timestamp = call.pre.cube_timestamp
OrientationFieldsKept ==
  /\ gyro_buffer = call.pre.gyro_buffer
  /\ gyro_timestamp_history = call.pre.gyro_timestamp_history
  /\ last_gyro_emit = call.pre.last_gyro_emit

\* C36: Hardware, Disconnect and unknown-tag frames, and Move frames before
\* the baseline, change no decoder field; Orientation frames change none of
\* last_serial, last_move_timestamp and cube_timestamp; Move and Facelets
\* frames change none of gyro_buffer, gyro_timestamp_history and
\* last_gyro_emit.
C36_FieldsPartitionedByKind ==
  Called =>
    /\ (\/ CallTag \notin {1, 2, 3, 4, 9}
        \/ CallTag = 2 /\ call.pre.last_serial = -1)
         => (MoveFieldsKept /\ OrientationFieldsKept)
    /\ CallTag = 1 => MoveFieldsKept
    /\ CallTag \in {2, 3, 4} => OrientationFieldsKept

\* a Hardware frame decoded after a baseline and an orientation sample
C36_Witness ==
  /\ Called
  /\ CallTag = 5
  /\ call.pre.last_serial = 250
  /\ Len(call.pre.gyro_buffer) = 1
  /\ Len(call.events) = 1
  /\ Fields = call.pre


(***************************************************************************)
(* Events against the connection's lifecycle events.                       *)
(***************************************************************************)
\* C37 as stated: no move, facelets, orientation, battery or hardware event
\* is emitted before the 'connected' event of a connection or after its
\* 'disconnected' event, however the notification callback interleaves with
\* the awaits of connect() and disconnect().
C37_NoEventOutsideConnection == ~conn.outside


(***************************************************************************)
(* The roll of the sprint state machine.                                    *)
(***************************************************************************)
RollsInProgress == {i \in DOMAIN sprint.rolls : sprint.rolls[i] # "done"}

\* C38 as stated: at most one roll sequence is in progress at any time;
\* with handle_roll called from concurrent workers, no second roll thread
\* is started until the running roll has finished and cleared the rolling
\* flag.
C38_AtMostOneRollInProgress == Cardinality(RollsInProgress) <= 1


====
